---- MODULE Spec2Model ----
(***************************************************************************)
(* A model of the MERN blog server: the bearer-token middleware (protect), *)
(* the role gate (authorize), the terminal error normalizer (errorHandler) *)
(* and the handlers of the posts controller, with requests interleaving at *)
(* every await.                                                            *)
(*                                                                         *)
(* JavaScript values are modelled as follows.  A string that the code      *)
(* parses (the Authorization header, a title, a content) is a sequence of  *)
(* atoms; an optional field (undefined or a value) is a sequence of length *)
(* 0 or 1; an object is a record; null / undefined documents are NoUser    *)
(* and NoPost.                                                             *)
(***************************************************************************)
EXTENDS Integers, Sequences, FiniteSets, TLC

VARIABLES
    env,        \* process.env.NODE_ENV, fixed when the server starts
    now,        \* the clock read by jwt.verify, in hours
    dbUp,       \* whether a store call succeeds (FALSE: the call rejects)
    users,      \* the users collection: id -> document or NoUser
    posts,      \* the posts collection: id -> document or NoPost
    pc,         \* per request: the await at which the request stands
    req,        \* per request: method, params.id, headers.authorization, body,
                \* user, and the error protect's catch block caught
    res,        \* per request: the responses written, in order
    nextCalls,  \* per request: the arguments of protect's calls of next, in order
    errLog,     \* per request: the records errorHandler passed to logger.error
    err,        \* errorHandler called directly: its err argument
    ehOut,      \* errorHandler called directly: what it did
    azRoles,    \* authorize called directly: the allow-set, in argument order
    azUser,     \* authorize called directly: req.user
    azOut,      \* authorize called directly: what the returned middleware did
    op,         \* the models called directly, per caller: the call, its
                \* prepared document and its outcome
    tk,         \* utils/auth.js called directly: the user, the token made,
                \* the token verified, when, and the outcomes
    lg,         \* requestLogger: its clock and, per request, the start time,
                \* the calls of next and the records logged
    form        \* the Form component: values, errors, touched, the calls
                \* of onSubmit and the kind of the last event

vars == <<env, now, dbUp, users, posts, pc, req, res, nextCalls, errLog,
          err, ehOut, azRoles, azUser, azOut, op, tk, lg, form>>

serverVars == <<env, now, dbUp, users, posts, pc, req, res, nextCalls, errLog>>
ehVars == <<err, ehOut>>
azVars == <<azRoles, azUser, azOut>>
sideVars == <<tk, lg, form>>
unitVars == <<ehVars, azVars, op, sideVars>>

----------------------------------------------------------------------------
(* Bounds of the model *)

MaxTime == 36       \* the clock stops here
ClockStep == 12     \* hours added by one tick of the clock

SmallSize == 3      \* the posts of the small collection that is listed

MaxClockMs == 1500  \* Date.now() stops here
ClockStepMs == 500  \* milliseconds added by one tick of Date.now()

MaxSubmits == 2     \* the calls of onSubmit that are recorded

(* Program constants *)

SlowMs == 1000      \* if (duration > 1000)
PasswordMin == 6    \* minLength of the password field
DefaultPage == 1
DefaultLimit == 10

TokenTTL == 24      \* JWT_EXPIRE || '24h'
UsernameMin == 3
UsernameMax == 30
TitleMin == 3
TitleMax == 200
ContentMin == 10
DuplicateKeyCode == 11000

Reqs == {"r1", "r2"}
Envs == {"development", "production", "test"}

----------------------------------------------------------------------------
(* Strings the code parses: sequences of atoms.  A character is the atom   *)
(* [ch |-> c]; a compact JWT is one atom [jwt |-> claims, sig |-> secret]  *)
(* (it holds no space); any other chunk without a space is [junk |-> s].   *)

Chars(s) == [i \in 1..Len(s) |-> [ch |-> s[i]]]
SP == [ch |-> " "]

Bearer == Chars(<<"B", "e", "a", "r", "e", "r">>)
BearerX == Chars(<<"B", "e", "a", "r", "e", "r", "X">>)
LowerBearer == Chars(<<"b", "e", "a", "r", "e", "r">>)
InvalidFormat == Chars(<<"B", "a", "s", "i", "c">>)

\* const x = value; ...: the value is computed once, then named
Const(value, Rest(_)) == CHOOSE y \in {Rest(x) : x \in {value}} : TRUE

\* String.prototype.startsWith
StartsWith(s, prefix) ==
    /\ Len(s) >= Len(prefix)
    /\ SubSeq(s, 1, Len(prefix)) = prefix

\* String.prototype.split(' '): the segments between single spaces
RECURSIVE SplitFrom(_, _, _)
SplitFrom(s, i, cur) ==
    IF i > Len(s) THEN <<cur>>
    ELSE IF s[i] = SP THEN <<cur>> \o SplitFrom(s, i + 1, <<>>)
    ELSE SplitFrom(s, i + 1, Append(cur, s[i]))

Split(s) == SplitFrom(s, 1, <<>>)

----------------------------------------------------------------------------
(* utils/auth.js: tokens *)

JWT_SECRET == "server-secret"
OtherSecret == "other-secret"

\* jwt.sign({id, email}, secret, {expiresIn}) at time t: one atom
JwtSign(payload, secret, t) ==
    <<[jwt |-> [id |-> payload.id, email |-> payload.email,
                iat |-> t, exp |-> t + TokenTTL],
       sig |-> secret]>>

generateToken_foreign(user, t) ==
    JwtSign([id |-> user._id, email |-> user.email], OtherSecret, t)
generateToken(user, t) ==
    JwtSign([id |-> user._id, email |-> user.email], JWT_SECRET, t)

MkError(name, message) ==
    [name |-> <<name>>, message |-> <<message>>, code |-> <<>>,
     statusCode |-> <<>>, keyPattern |-> <<>>, errors |-> <<>>,
     stack |-> <<"stack">>]

Threw(e) == [threw |-> TRUE, error |-> e]
Returned(v) == [threw |-> FALSE, value |-> v]

\* jwt.verify(token, secret) at time t
JwtVerify(token, secret, t) ==
    IF ~(Len(token) = 1 /\ DOMAIN token[1] = {"jwt", "sig"})
    THEN Threw(MkError("JsonWebTokenError", "jwt malformed"))
    ELSE IF token[1].sig # secret
    THEN Threw(MkError("JsonWebTokenError", "invalid signature"))
    ELSE IF t >= token[1].jwt.exp
    THEN Threw(MkError("TokenExpiredError", "jwt expired"))
    ELSE Returned(token[1].jwt)

verifyToken_leak(token, t) == JwtVerify(token, JWT_SECRET, t)
verifyToken(token, t) ==
    LET r == JwtVerify(token, JWT_SECRET, t) IN
    IF r.threw THEN Threw(MkError("Error", "Invalid token")) ELSE r

----------------------------------------------------------------------------
(* The users collection *)

UserIds == {"u1", "u2", "u3", "u4"}
NoUser == [none |-> TRUE]

UserDoc(id, role) ==
    [_id |-> id, username |-> id, email |-> id, role |-> role,
     password |-> "hash"]

\* u4 holds a token but is no longer in the collection
InitialUsers ==
    [u \in UserIds |->
        CASE u = "u3" -> UserDoc(u, "admin")
          [] u = "u4" -> NoUser
          [] OTHER -> UserDoc(u, "user")]

\* User.findById(id): rejects when the store is down
FindUserById(id, store, up) ==
    IF ~up THEN Threw(MkError("MongoNetworkError", "Database error"))
    ELSE IF id \in DOMAIN store THEN Returned(store[id])
    ELSE Returned(NoUser)

\* .select('-password')
SelectNoPassword_all(doc) == doc
SelectNoPassword(doc) ==
    IF doc = NoUser THEN NoUser
    ELSE [f \in DOMAIN doc \ {"password"} |-> doc[f]]

----------------------------------------------------------------------------
(* middleware/auth.js: protect *)

NotAuthorizedMsg == "Not authorized to access this route"
UserNotFoundMsg == "User not found"

Response(status, body) == [status |-> status, body |-> body]

\* what a middleware did: the user it attached, the responses it wrote,
\* the arguments of its calls of next (<<>> is next()), and the error its
\* catch block caught, if any
Outcome(user, written, calls, caught) ==
    [user |-> user, res |-> written, next |-> calls, caught |-> caught]

\* lines 11-14: token stays undefined unless the header starts with 'Bearer';
\* undefined and '' are both falsy and both <<>> here
ExtractToken(authorization) ==
    IF authorization # <<>> /\ StartsWith(authorization, Bearer)
    THEN LET parts == Split(authorization) IN
         IF Len(parts) >= 2 THEN parts[2] ELSE <<>>
    ELSE <<>>

\* lines 32-34: the catch block
ProtectCatch_next(error, user) ==
    Outcome(user, <<>>, << <<>> >>, <<error>>)
ProtectCatch_forward(error, user) ==
    Outcome(user, <<>>, << <<error>> >>, <<error>>)
ProtectCatch_leak(error, user) ==
    Outcome(user, <<Response(401, [error |-> error.message[1]])>>, <<>>, <<error>>)
ProtectCatch(error, user) ==
    Outcome(user, <<Response(401, [error |-> NotAuthorizedMsg])>>, <<>>, <<error>>)

\* lines 24-31: req.user is assigned, then tested
ProtectAfterLookup_nocheck(user) == Outcome(user, <<>>, << <<>> >>, <<>>)
ProtectAfterLookup_noreturn(user) ==
    IF user = NoUser
    THEN Outcome(user, <<Response(401, [error |-> UserNotFoundMsg])>>, << <<>> >>, <<>>)
    ELSE Outcome(user, <<>>, << <<>> >>, <<>>)
ProtectAfterLookup(user) ==
    IF user = NoUser
    THEN Outcome(user, <<Response(401, [error |-> UserNotFoundMsg])>>, <<>>, <<>>)
    ELSE Outcome(user, <<>>, << <<>> >>, <<>>)

protect(authorization, user0, t, store, up) ==
    Const(ExtractToken(authorization), LAMBDA token :
    IF token = <<>>
    THEN Outcome(user0, <<Response(401, [error |-> NotAuthorizedMsg])>>, <<>>, <<>>)
    ELSE Const(verifyToken(token, t), LAMBDA decoded :
         IF decoded.threw THEN ProtectCatch(decoded.error, user0)
         ELSE Const(FindUserById(decoded.value.id, store, up), LAMBDA found :
              IF found.threw THEN ProtectCatch(found.error, user0)
              ELSE ProtectAfterLookup(SelectNoPassword(found.value)))))

----------------------------------------------------------------------------
(* middleware/auth.js: authorize *)

Roles == {"user", "admin", "moderator", "guest"}

\* Array.prototype.includes
Includes(seq, x) == \E i \in 1..Len(seq) : seq[i] = x

\* the template literal of line 44, as its parts
RoleDeniedMsg(role) ==
    <<"User role '", role, "' is not authorized to access this route">>

authorize_first(roles, user) ==
    IF ~(Len(roles) >= 1 /\ roles[1] = user.role)
    THEN Outcome(user, <<Response(403, [error |-> RoleDeniedMsg(user.role)])>>, <<>>, <<>>)
    ELSE Outcome(user, <<>>, << <<>> >>, <<>>)
authorize(roles, user) ==
    IF ~Includes(roles, user.role)
    THEN Outcome(user, <<Response(403, [error |-> RoleDeniedMsg(user.role)])>>, <<>>, <<>>)
    ELSE Outcome(user, <<>>, << <<>> >>, <<>>)

----------------------------------------------------------------------------
(* middleware/errorHandler.js *)

\* what errorHandler did: the responses it wrote, the records it logged,
\* whether it threw, its calls of next
Handled(written, logged, threw) ==
    [res |-> written, log |-> logged, threw |-> threw, next |-> <<>>]

\* lines 9-15
LogRecord_nourl(e, ctx) ==
    [message |-> e.message, stack |-> e.stack,
     url |-> <<>>, method |-> ctx.method, ip |-> ctx.ip]
LogRecord(e, ctx) ==
    [message |-> e.message, stack |-> e.stack,
     url |-> ctx.url, method |-> ctx.method, ip |-> ctx.ip]

\* err.message || 'Server Error'
MessageOr(e, default) ==
    IF e.message = <<>> \/ e.message = <<"">> THEN default ELSE e.message[1]

\* err.statusCode || 500
StatusOr(e, default) ==
    IF e.statusCode = <<>> \/ e.statusCode = <<0>> THEN default
    ELSE e.statusCode[1]

\* lines 58-63
DefaultBody_stack(e, mode) == [error |-> MessageOr(e, "Server Error"), stack |-> e.stack]
DefaultBody(e, mode) ==
    IF mode = "development"
    THEN [error |-> MessageOr(e, "Server Error"), stack |-> e.stack]
    ELSE [error |-> MessageOr(e, "Server Error")]

\* Object.keys(err.keyPattern)[0] inside the template literal of line 30
FirstKey(keys) == IF Len(keys) >= 1 THEN keys[1] ELSE "undefined"

errorHandler(e, ctx, mode) ==
    LET logged == <<LogRecord(e, ctx)>> IN
    IF e.name = <<"CastError">>
    THEN Handled(<<Response(400, [error |-> "Invalid ID format",
                                  details |-> [str |-> e.message]])>>,
                 logged, FALSE)
    ELSE IF e.code = <<DuplicateKeyCode>>
    THEN IF e.keyPattern = <<>>
         THEN Handled(<<>>, logged, TRUE)   \* Object.keys(undefined) throws
         ELSE Handled(<<Response(400, [error |-> "Duplicate field value",
                   details |-> [str |-> <<FirstKey(e.keyPattern[1]) \o " already exists">>]])>>,
                      logged, FALSE)
    ELSE IF e.name = <<"ValidationError">>
    THEN IF e.errors = <<>>
         THEN Handled(<<>>, logged, TRUE)   \* Object.values(undefined) throws
         ELSE Handled(<<Response(400, [error |-> "Validation error",
                   details |-> [list |-> [i \in 1..Len(e.errors[1]) |->
                                             e.errors[1][i].message]]])>>,
                      logged, FALSE)
    ELSE IF e.name = <<"JsonWebTokenError">>
    THEN Handled(<<Response(401, [error |-> "Invalid token",
                                  details |-> [str |-> e.message]])>>,
                 logged, FALSE)
    ELSE IF e.name = <<"TokenExpiredError">>
    THEN Handled(<<Response(401, [error |-> "Token expired",
                                  details |-> [str |-> e.message]])>>,
                 logged, FALSE)
    ELSE Handled(<<Response(StatusOr(e, 500), DefaultBody(e, mode))>>,
                 logged, FALSE)

\* app.use(errorHandler): next(error) reaches errorHandler; when errorHandler
\* itself throws, the framework's last resort answers 500 without a JSON body
NextWithError(e, ctx, mode) ==
    LET h == errorHandler(e, ctx, mode) IN
    IF h.threw
    THEN [h EXCEPT !.res = <<Response(500, [html |-> "Internal Server Error"])>>]
    ELSE h

----------------------------------------------------------------------------
(* routes/posts.js: postValidation *)

IsSpace(c) == c \in {" ", "\t", "\n"}

RECURSIVE TrimLeft(_)
TrimLeft(s) ==
    IF s # <<>> /\ IsSpace(Head(s)) THEN TrimLeft(Tail(s)) ELSE s

RECURSIVE TrimRight(_)
TrimRight(s) ==
    IF s # <<>> /\ IsSpace(s[Len(s)]) THEN TrimRight(SubSeq(s, 1, Len(s) - 1))
    ELSE s

\* .trim()
Trim(s) == TrimRight(TrimLeft(s))

\* the sanitizers write the trimmed values back into req.body
Sanitize(body) ==
    [body EXCEPT !.title = Trim(@), !.content = Trim(@)]

TitleMsg == "Title must be between 3 and 200 characters"
ContentMsg == "Content must be at least 10 characters"

\* validationResult(req).array(), of the sanitized body
ValidationErrors(body) ==
    (IF Len(body.title) >= TitleMin /\ Len(body.title) <= TitleMax
     THEN <<>> ELSE <<[msg |-> TitleMsg, path |-> "title"]>>)
    \o
    (IF Len(body.content) >= ContentMin
     THEN <<>> ELSE <<[msg |-> ContentMsg, path |-> "content"]>>)

\* lines 58-61 and 88-91: details is errors.array(), a list of the validator's
\* error objects
ValidationFailed(errors) ==
    Response(400, [error |-> "Validation failed", details |-> [objects |-> errors]])

----------------------------------------------------------------------------
(* The posts collection and controllers/postsController.js *)

PostIds == {"p1", "p2"}
BadId == "not-an-object-id"
IdParams == PostIds \cup {BadId}
NoPost == [none |-> TRUE]

Repeat(c, n) == [i \in 1..n |-> c]

OriginalTitle == <<"O", "l", "d">>
NewTitle == <<" ", "N", "e", "w", " ">>
ShortTitle == <<" ", "a", "b", " ">>
LongContent == Repeat("x", ContentMin)
ShortContent == Repeat("x", ContentMin - 1) \o <<" ">>

Body(title, content, published) ==
    [title |-> title, content |-> content, published |-> published]

NoBody == Body(<<>>, <<>>, <<>>)
\* the first body also names the admin as author
Bodies ==
    {[author |-> <<"u3">>] @@ Body(NewTitle, LongContent, <<TRUE>>),
     Body(ShortTitle, ShortContent, <<>>)}

\* models/Post.js, the slug of a title: lowercased, every run of characters
\* that are not letters or digits replaced by one hyphen
Capitals ==
    <<"A", "B", "C", "D", "E", "F", "G", "H", "I", "J", "K", "L", "M",
      "N", "O", "P", "Q", "R", "S", "T", "U", "V", "W", "X", "Y", "Z">>
Letters ==
    <<"a", "b", "c", "d", "e", "f", "g", "h", "i", "j", "k", "l", "m",
      "n", "o", "p", "q", "r", "s", "t", "u", "v", "w", "x", "y", "z">>
Digits == {"0", "1", "2", "3", "4", "5", "6", "7", "8", "9"}

\* toLowerCase() of one character
ToLower(c) ==
    IF \E i \in 1..Len(Capitals) : Capitals[i] = c
    THEN Letters[CHOOSE i \in 1..Len(Capitals) : Capitals[i] = c]
    ELSE c

IsAlnum(c) == c \in Digits \/ \E i \in 1..Len(Letters) : Letters[i] = c

\* .replace(/[^a-z0-9]+/g, '-'): the last character of a run becomes the
\* hyphen, the others are dropped
Hyphenate(s) ==
    LET Dropped == ""
        marked == [i \in 1..Len(s) |->
                     IF IsAlnum(s[i]) THEN s[i]
                     ELSE IF i = Len(s) \/ IsAlnum(s[i + 1]) THEN "-"
                     ELSE Dropped]
        Kept(c) == c # Dropped
    IN SelectSeq(marked, Kept)

Slugify(title) ==
    Const([i \in 1..Len(title) |-> ToLower(title[i])], LAMBDA lower : Hyphenate(lower))

InitialPosts ==
    [p \in PostIds |->
        IF p = "p1"
        THEN [_id |-> p, title |-> OriginalTitle, content |-> LongContent,
              author |-> "u1", published |-> FALSE,
              slug |-> Slugify(OriginalTitle)]
        ELSE NoPost]

\* Post.findById(id): a malformed id fails the cast before the store is asked
FindPostById_nocast(id, store, up) ==
    IF id \notin PostIds THEN Returned(NoPost)
    ELSE IF ~up THEN Threw(MkError("MongoNetworkError", "Database error"))
    ELSE Returned(store[id])
FindPostById(id, store, up) ==
    IF id \notin PostIds
    THEN Threw(MkError("CastError", "Cast to ObjectId failed"))
    ELSE IF ~up THEN Threw(MkError("MongoNetworkError", "Database error"))
    ELSE Returned(store[id])

\* .populate('author', 'username email')
Populate(post, store) ==
    IF post = NoPost THEN NoPost
    ELSE [post EXCEPT !.author =
            IF store[@] = NoUser THEN NoUser
            ELSE [_id |-> store[@]._id, username |-> store[@].username,
                  email |-> store[@].email]]

\* lines 100 and 131: the requester may not touch the post
NotOwner_user(post, user) == post.author # user._id /\ user.role # "user"
NotOwner_or(post, user) == post.author # user._id \/ user.role # "admin"
NotOwner(post, user) == post.author # user._id /\ user.role # "admin"

\* line 108: the fields findByIdAndUpdate sets (undefined ones are left alone);
\* an update query saves no document, so the slug stays as it is
ApplyUpdate_author(post, body) ==
    [post EXCEPT !.title = body.title, !.content = body.content,
                 !.published = IF body.published = <<>> THEN @
                               ELSE body.published[1],
                 !.author = IF "author" \in DOMAIN body THEN body.author[1] ELSE @]
ApplyUpdate(post, body) ==
    [post EXCEPT !.title = body.title, !.content = body.content,
                 !.published = IF body.published = <<>> THEN @
                               ELSE body.published[1]]

\* models/Post.js, the document Post.create builds from its argument: the title
\* trimmed, published false by default, the slug derived from the title
\* unless one is supplied
NewPost(id, fields) ==
    [_id |-> id, title |-> Trim(fields.title), content |-> fields.content,
     author |-> fields.author,
     published |-> IF fields.published = <<>> THEN FALSE
                   ELSE fields.published[1],
     slug |-> IF fields.slug = <<>> THEN Slugify(Trim(fields.title))
              ELSE fields.slug[1]]

\* models/Post.js, the schema's validators: title of 3..200, content of 10 or more
SchemaErrors(doc) ==
    (IF Len(doc.title) >= TitleMin /\ Len(doc.title) <= TitleMax
     THEN <<>> ELSE <<[message |-> "Title is out of range"]>>)
    \o
    (IF Len(doc.content) >= ContentMin
     THEN <<>> ELSE <<[message |-> "Content is too short"]>>)

SchemaError(errors) ==
    [MkError("ValidationError", "Post validation failed")
        EXCEPT !.errors = <<errors>>]

\* the error of an insert or update that breaks a unique index
DuplicateKey(field) ==
    [MkError("MongoServerError", "E11000 duplicate key error collection")
        EXCEPT !.code = <<DuplicateKeyCode>>, !.keyPattern = << <<field>> >>]

\* the unique index on slug: another post holds the slug
SlugTaken(slug, id, store) ==
    \E p \in PostIds : p # id /\ store[p] # NoPost /\ store[p].slug = slug

FreeIds(store) == {p \in PostIds : store[p] = NoPost}

\* the _id of a new document
FreshId(store) ==
    IF FreeIds(store) = {} THEN "NONE" ELSE CHOOSE p \in FreeIds(store) : TRUE

\* Post.create(fields): validate, then insert under the unique index
PostCreate_noindex(fields, store, up) ==
    Const(NewPost(FreshId(store), fields), LAMBDA doc :
    IF SchemaErrors(doc) # <<>> THEN Threw(SchemaError(SchemaErrors(doc)))
    ELSE IF ~up THEN Threw(MkError("MongoNetworkError", "Database error"))
    ELSE Returned(doc))
PostCreate(fields, store, up) ==
    Const(NewPost(FreshId(store), fields), LAMBDA doc :
    IF SchemaErrors(doc) # <<>> THEN Threw(SchemaError(SchemaErrors(doc)))
    ELSE IF ~up THEN Threw(MkError("MongoNetworkError", "Database error"))
    ELSE IF SlugTaken(doc.slug, doc._id, store) THEN Threw(DuplicateKey("slug"))
    ELSE Returned(doc))

Ctx(r) ==
    [url |-> IF req[r].method = "POST" \/ req[r].id = "NONE" THEN <<"/api/posts">>
             ELSE <<"/api/posts/", req[r].id>>,
     method |-> req[r].method, ip |-> "127.0.0.1"]

----------------------------------------------------------------------------
(* Requests *)

TokenFor(u) == generateToken([_id |-> u, email |-> u], 0)
JunkToken == <<[junk |-> "invalid.token.here"]>>
ForeignToken == JwtSign([id |-> "u1", email |-> "u1"], OtherSecret, 0)

\* the Authorization headers of the requests to the posts routes
ServerHeaders ==
    {<<>>} \cup {Bearer \o <<SP>> \o TokenFor(u) : u \in {"u1", "u2", "u3"}}

\* the Authorization headers protect is called with directly
AllHeaders ==
    ServerHeaders \cup
    {Bearer \o <<SP>> \o TokenFor("u4"),
     InvalidFormat \o <<SP>> \o TokenFor("u1"),
     Bearer,
     Bearer \o <<SP>>,
     Bearer \o <<SP>> \o JunkToken,
     Bearer \o <<SP>> \o ForeignToken,
     BearerX \o <<SP>> \o TokenFor("u1"),
     LowerBearer \o <<SP>> \o TokenFor("u1")}

\* req.query of GET /api/posts; each parameter is absent or a string
NoQuery == [category |-> <<>>, page |-> <<>>, limit |-> <<>>]

IdleReq ==
    [method |-> "NONE", id |-> "NONE", authorization |-> <<>>,
     body |-> NoBody, user |-> NoUser, caught |-> <<>>,
     query |-> NoQuery, found |-> <<>>]

\* routes/posts.js lines 21, 23, 24: GET /:id goes straight to getPost, PUT
\* and DELETE pass protect first
NewRequest(r) ==
    /\ pc[r] = "idle"
    /\ \E m \in {"GET", "PUT", "DELETE"}, id \in IdParams :
         \E a \in (IF m = "GET" THEN {<<>>} ELSE ServerHeaders),
            b \in (IF m = "PUT" THEN Bodies ELSE {NoBody}) :
            /\ req' = [req EXCEPT ![r] =
                         [method |-> m, id |-> id, authorization |-> a,
                          body |-> b, user |-> NoUser, caught |-> <<>>,
                          query |-> NoQuery, found |-> <<>>]]
            /\ pc' = [pc EXCEPT ![r] =
                         IF m = "GET" THEN "controller" ELSE "protect"]
    /\ UNCHANGED <<env, now, dbUp, users, posts, res, nextCalls, errLog>>
    /\ UNCHANGED unitVars

\* the request is answered: its responses and log records are appended
Answer(r, written, logged) ==
    /\ res' = [res EXCEPT ![r] = @ \o written]
    /\ errLog' = [errLog EXCEPT ![r] = @ \o logged]
    /\ pc' = [pc EXCEPT ![r] = "done"]

\* catch (error) { next(error) } of a controller
Fail(r, error) ==
    LET h == NextWithError(error, Ctx(r), env) IN Answer(r, h.res, h.log)

\* router.put / router.delete: protect runs first
Protect(r) ==
    /\ pc[r] = "protect"
    /\ \E o \in {protect(req[r].authorization, req[r].user, now, users, dbUp)} :
         /\ req' = [req EXCEPT ![r].user = o.user, ![r].caught = o.caught]
         /\ nextCalls' = [nextCalls EXCEPT ![r] = @ \o o.next]
         /\ IF o.next = <<>> THEN Answer(r, o.res, <<>>)
            ELSE IF o.next[1] # <<>> THEN Fail(r, o.next[1][1])
            ELSE /\ pc' = [pc EXCEPT ![r] = "controller"]
                 /\ res' = [res EXCEPT ![r] = @ \o o.res]
                 /\ UNCHANGED errLog
    /\ UNCHANGED <<env, now, dbUp, users, posts>>
    /\ UNCHANGED unitVars

\* getPost: findById, populate, respond
GetPost(r) ==
    /\ pc[r] = "controller"
    /\ req[r].method = "GET"
    /\ req[r].id \in IdParams
    /\ LET found == FindPostById(req[r].id, posts, dbUp) IN
         IF found.threw THEN Fail(r, found.error)
         ELSE IF found.value = NoPost
         THEN Answer(r, <<Response(404, [error |-> "Post not found"])>>, <<>>)
         ELSE Answer(r, <<Response(200, Populate(found.value, users))>>, <<>>)
    /\ UNCHANGED <<env, now, dbUp, users, posts, req, nextCalls>>
    /\ UNCHANGED unitVars

\* postValidation, then updatePost up to the await of line 106
UpdateFind(r) ==
    /\ pc[r] = "controller"
    /\ req[r].method = "PUT"
    /\ LET body == Sanitize(req[r].body)
           errors == ValidationErrors(body)
           found == FindPostById(req[r].id, posts, dbUp)
       IN
         /\ req' = [req EXCEPT ![r].body = body]
         /\ IF errors # <<>>
            THEN Answer(r, <<ValidationFailed(errors)>>, <<>>)
            ELSE IF found.threw THEN Fail(r, found.error)
            ELSE IF found.value = NoPost
            THEN Answer(r, <<Response(404, [error |-> "Post not found"])>>, <<>>)
            ELSE IF NotOwner(found.value, req[r].user)
            THEN Answer(r, <<Response(403,
                     [error |-> "Not authorized to update this post"])>>, <<>>)
            ELSE /\ pc' = [pc EXCEPT ![r] = "write"]
                 /\ UNCHANGED <<res, errLog>>
    /\ UNCHANGED <<env, now, dbUp, users, posts, nextCalls>>
    /\ UNCHANGED unitVars

NullBody == [null |-> TRUE]

\* updatePost from the await of line 106: findByIdAndUpdate, populate, respond
UpdateWrite(r) ==
    /\ pc[r] = "write"
    /\ req[r].method = "PUT"
    /\ IF ~dbUp
       THEN /\ Fail(r, MkError("MongoNetworkError", "Database error"))
            /\ UNCHANGED posts
       ELSE IF posts[req[r].id] = NoPost
       THEN /\ Answer(r, <<Response(200, NullBody)>>, <<>>)
            /\ UNCHANGED posts
       ELSE LET updated == ApplyUpdate(posts[req[r].id], req[r].body) IN
            /\ posts' = [posts EXCEPT ![req[r].id] = updated]
            /\ Answer(r, <<Response(200, Populate(updated, users))>>, <<>>)
    /\ UNCHANGED <<env, now, dbUp, users, req, nextCalls>>
    /\ UNCHANGED unitVars

\* deletePost up to the await of line 135
DeleteFind(r) ==
    /\ pc[r] = "controller"
    /\ req[r].method = "DELETE"
    /\ LET found == FindPostById(req[r].id, posts, dbUp) IN
         IF found.threw THEN Fail(r, found.error)
         ELSE IF found.value = NoPost
         THEN Answer(r, <<Response(404, [error |-> "Post not found"])>>, <<>>)
         ELSE IF NotOwner(found.value, req[r].user)
         THEN Answer(r, <<Response(403,
                  [error |-> "Not authorized to delete this post"])>>, <<>>)
         ELSE /\ pc' = [pc EXCEPT ![r] = "write"]
              /\ UNCHANGED <<res, errLog>>
    /\ UNCHANGED <<env, now, dbUp, users, posts, req, nextCalls>>
    /\ UNCHANGED unitVars

\* deletePost from the await of line 135: post.deleteOne(), respond
DeleteWrite(r) ==
    /\ pc[r] = "write"
    /\ req[r].method = "DELETE"
    /\ IF ~dbUp
       THEN /\ Fail(r, MkError("MongoNetworkError", "Database error"))
            /\ UNCHANGED posts
       ELSE /\ posts' = [posts EXCEPT ![req[r].id] = NoPost]
            /\ Answer(r, <<Response(200, [success |-> TRUE,
                                          message |-> "Post deleted"])>>, <<>>)
    /\ UNCHANGED <<env, now, dbUp, users, req, nextCalls>>
    /\ UNCHANGED unitVars

UpperTitle == <<"N", "E", "W">>
MaxTitle == <<" ">> \o Repeat("t", TitleMax) \o <<" ">>
OverlongTitle == Repeat("t", TitleMax + 1)

\* a slug a client supplies
OwnSlug == <<"m", "i", "n", "e">>

\* the bodies of the POST requests: titles of 3, 2, 200 and 201 characters
\* once trimmed, contents of 10 and 9; one names another user as author and
\* supplies published and a slug
CreateBodies ==
    {Body(NewTitle, LongContent, <<>>),
     [author |-> <<"u2">>, slug |-> <<OwnSlug>>] @@ Body(UpperTitle, LongContent, <<TRUE>>),
     Body(ShortTitle, LongContent, <<>>),
     Body(MaxTitle, LongContent, <<>>),
     Body(OverlongTitle, LongContent, <<>>),
     Body(NewTitle, ShortContent, <<>>)}

\* the Authorization headers of the POST requests: none, an author's, and
\* that of a user who is gone
CreateHeaders ==
    {<<>>, Bearer \o <<SP>> \o TokenFor("u1"), Bearer \o <<SP>> \o TokenFor("u4")}

\* the POST requests that have not yet made their document
Creating == {q \in Reqs : pc[q] \in {"protect", "controller"}}

\* routes/posts.js line 22: POST / passes protect, postValidation, createPost;
\* req.id will hold post._id, the route has no path parameter
NewCreateRequest(r) ==
    /\ pc[r] = "idle"
    /\ Cardinality(Creating) < Cardinality(FreeIds(posts))
    /\ \E a \in CreateHeaders, b \in CreateBodies :
          req' = [req EXCEPT ![r] =
                    [method |-> "POST", id |-> "NONE", authorization |-> a,
                     body |-> b, user |-> NoUser, caught |-> <<>>,
                     query |-> NoQuery, found |-> <<>>]]
    /\ pc' = [pc EXCEPT ![r] = "protect"]
    /\ UNCHANGED <<env, now, dbUp, users, posts, res, nextCalls, errLog>>
    /\ UNCHANGED unitVars

\* lines 63-71: the fields createPost hands to Post.create; category and tags
\* are not modelled, and nothing else of the body is read
CreateFields_body(body, user) ==
    [title |-> body.title, content |-> body.content,
     author |-> IF "author" \in DOMAIN body THEN body.author[1] ELSE user._id,
     published |-> body.published,
     slug |-> IF "slug" \in DOMAIN body THEN body.slug ELSE <<>>]
CreateFields(body, user) ==
    [title |-> body.title, content |-> body.content, author |-> user._id,
     published |-> <<>>, slug |-> <<>>]

\* postValidation, then createPost up to the await of line 73; the sanitized
\* body and the outcome of Post.create are values computed once
CreateInsert(r) ==
    /\ pc[r] = "controller"
    /\ req[r].method = "POST"
    /\ \E body \in {Sanitize(req[r].body)} :
         IF ValidationErrors(body) # <<>>
         THEN /\ Answer(r, <<ValidationFailed(ValidationErrors(body))>>, <<>>)
              /\ req' = [req EXCEPT ![r].body = body]
              /\ UNCHANGED posts
         ELSE IF req[r].user = NoUser
         THEN /\ Fail(r, MkError("TypeError", "Cannot read properties of undefined"))
              /\ req' = [req EXCEPT ![r].body = body]
              /\ UNCHANGED posts
         ELSE \E made \in {PostCreate(CreateFields(body, req[r].user), posts, dbUp)} :
                 IF made.threw
                 THEN /\ Fail(r, made.error)
                      /\ req' = [req EXCEPT ![r].body = body]
                      /\ UNCHANGED posts
                 ELSE /\ posts' = [posts EXCEPT ![made.value._id] = made.value]
                      /\ req' = [req EXCEPT ![r].body = body,
                                            ![r].id = made.value._id]
                      /\ pc' = [pc EXCEPT ![r] = "write"]
                      /\ UNCHANGED <<res, errLog>>
    /\ UNCHANGED <<env, now, dbUp, users, nextCalls>>
    /\ UNCHANGED unitVars

\* createPost from the await of line 73: findById, populate, respond 201
CreateRespond(r) ==
    /\ pc[r] = "write"
    /\ req[r].method = "POST"
    /\ LET found == FindPostById(req[r].id, posts, dbUp) IN
         IF found.threw THEN Fail(r, found.error)
         ELSE IF found.value = NoPost THEN Answer(r, <<Response(201, NullBody)>>, <<>>)
         ELSE Answer(r, <<Response(201, Populate(found.value, users))>>, <<>>)
    /\ UNCHANGED <<env, now, dbUp, users, posts, req, nextCalls>>
    /\ UNCHANGED unitVars

\* the connection of an answered request is closed
Close(r) ==
    /\ pc[r] = "done"
    /\ pc' = [pc EXCEPT ![r] = "idle"]
    /\ req' = [req EXCEPT ![r] = IdleReq]
    /\ res' = [res EXCEPT ![r] = <<>>]
    /\ nextCalls' = [nextCalls EXCEPT ![r] = <<>>]
    /\ errLog' = [errLog EXCEPT ![r] = <<>>]
    /\ UNCHANGED <<env, now, dbUp, users, posts>>
    /\ UNCHANGED unitVars

\* the store becomes unreachable, or reachable again
DbFail ==
    /\ dbUp
    /\ dbUp' = FALSE
    /\ UNCHANGED <<env, now, users, posts, pc, req, res, nextCalls, errLog>>
    /\ UNCHANGED unitVars

DbRecover ==
    /\ ~dbUp
    /\ dbUp' = TRUE
    /\ UNCHANGED <<env, now, users, posts, pc, req, res, nextCalls, errLog>>
    /\ UNCHANGED unitVars

\* time passes
Tick ==
    /\ now + ClockStep <= MaxTime
    /\ now' = now + ClockStep
    /\ UNCHANGED <<env, dbUp, users, posts, pc, req, res, nextCalls, errLog>>
    /\ UNCHANGED unitVars

----------------------------------------------------------------------------
(* The server: GET, PUT and DELETE requests to /api/posts/:id *)

NoErr == [name |-> <<>>, message |-> <<>>, code |-> <<>>, statusCode |-> <<>>,
          keyPattern |-> <<>>, errors |-> <<>>, stack |-> <<>>]

NoOp == [kind |-> "none", doc |-> <<>>, out |-> <<>>]

\* no call of utils/auth.js yet
NoToken == [user |-> NoUser, issued |-> <<>>, token |-> <<>>, at |-> 0,
            verified |-> <<>>]

\* a request requestLogger has not seen
NoLog == [url |-> <<>>, startTime |-> <<>>, next |-> 0, log |-> <<>>,
          finishTime |-> <<>>, closed |-> FALSE]

\* useState({}) three times, onSubmit never called
NoForm == [values |-> <<>>, errors |-> <<>>, touched |-> {}, submitted |-> <<>>,
           last |-> "none"]

SideIdle ==
    /\ tk = NoToken
    /\ lg = [clock |-> 0, reqs |-> [r \in Reqs |-> NoLog]]
    /\ form = NoForm

UnitIdle ==
    /\ err = NoErr
    /\ ehOut = <<>>
    /\ azRoles = <<>>
    /\ azUser = NoUser
    /\ azOut = <<>>
    /\ op = [c \in Reqs |-> NoOp]
    /\ SideIdle

ServerIdle ==
    /\ now = 0
    /\ dbUp = TRUE
    /\ users = InitialUsers
    /\ posts = InitialPosts
    /\ pc = [r \in Reqs |-> "idle"]
    /\ req = [r \in Reqs |-> IdleReq]
    /\ res = [r \in Reqs |-> <<>>]
    /\ nextCalls = [r \in Reqs |-> <<>>]
    /\ errLog = [r \in Reqs |-> <<>>]

Init ==
    /\ env \in Envs
    /\ ServerIdle
    /\ UnitIdle

Next ==
    \/ \E r \in Reqs : NewRequest(r)
    \/ \E r \in Reqs : Protect(r)
    \/ \E r \in Reqs : GetPost(r)
    \/ \E r \in Reqs : UpdateFind(r)
    \/ \E r \in Reqs : UpdateWrite(r)
    \/ \E r \in Reqs : DeleteFind(r)
    \/ \E r \in Reqs : DeleteWrite(r)
    \/ \E r \in Reqs : Close(r)
    \/ DbFail
    \/ DbRecover

Spec == Init /\ [][Next]_vars

----------------------------------------------------------------------------
(* The server: POST requests to /api/posts, the collection empty at first *)

InitCreate ==
    /\ env = "test"
    /\ now = 0
    /\ dbUp = TRUE
    /\ users = InitialUsers
    /\ posts = [p \in PostIds |-> NoPost]
    /\ pc = [r \in Reqs |-> "idle"]
    /\ req = [r \in Reqs |-> IdleReq]
    /\ res = [r \in Reqs |-> <<>>]
    /\ nextCalls = [r \in Reqs |-> <<>>]
    /\ errLog = [r \in Reqs |-> <<>>]
    /\ UnitIdle

NextCreate ==
    \/ \E r \in Reqs : NewCreateRequest(r)
    \/ \E r \in Reqs : Protect(r)
    \/ \E r \in Reqs : CreateInsert(r)
    \/ \E r \in Reqs : CreateRespond(r)
    \/ \E r \in Reqs : Close(r)
    \/ DbFail
    \/ DbRecover

SpecCreate == InitCreate /\ [][NextCreate]_vars

----------------------------------------------------------------------------
(* The server: GET requests to /api/posts over a collection that is empty, *)
(* small, or larger than the default page                                  *)

DigitChars == <<"0", "1", "2", "3", "4", "5", "6", "7", "8", "9">>
DigitValue(c) == (CHOOSE i \in 1..Len(DigitChars) : DigitChars[i] = c) - 1

\* the number a string of digits is coerced to by * and -; '' gives 0
RECURSIVE ToNumber(_)
ToNumber(s) ==
    IF s = <<>> THEN 0
    ELSE 10 * ToNumber(SubSeq(s, 1, Len(s) - 1)) + DigitValue(s[Len(s)])

\* line 10: page = 1 and limit = 10 unless the parameter is present
PageOf(query) == IF query.page = <<>> THEN DefaultPage ELSE ToNumber(query.page[1])
LimitOf(query) == IF query.limit = <<>> THEN DefaultLimit ELSE ToNumber(query.limit[1])

\* lines 13-16: the filter; '' is falsy
Matches(post, query) ==
    (query.category # <<>> /\ query.category[1] # <<>>) =>
       post.category = <<query.category[1]>>

\* .sort({ createdAt: -1 }): newest first
SortNewestFirst(S) ==
    [i \in 1..Cardinality(S) |->
        CHOOSE d \in S :
           Cardinality({e \in S : e.createdAt > d.createdAt}) = i - 1]

\* .skip(k) then .limit(n) of the cursor; limit(0) sets no limit
SkipLimit(sorted, k, n) ==
    IF n = 0 THEN SubSeq(sorted, k + 1, Len(sorted))
    ELSE SubSeq(sorted, k + 1, IF k + n < Len(sorted) THEN k + n ELSE Len(sorted))

\* lines 19-23
FindPosts(query, store, userStore, up) ==
    IF ~up THEN Threw(MkError("MongoNetworkError", "Database error"))
    ELSE LET matching == {store[p] : p \in {q \in DOMAIN store : Matches(store[q], query)}}
         IN Const(SkipLimit(SortNewestFirst(matching),
                            (PageOf(query) - 1) * LimitOf(query),
                            LimitOf(query) * 1), LAMBDA page :
            Returned([i \in 1..Len(page) |-> Populate(page[i], userStore)]))

ListSizes == {0, SmallSize, DefaultLimit + 2}

\* a collection of n posts: the odd ones created last, every third without a
\* category, the others in one of two
Listed(n) ==
    [i \in 1..n |->
        [_id |-> i, title |-> OriginalTitle, content |-> LongContent,
         author |-> IF i % 2 = 1 THEN "u1" ELSE "u2", published |-> TRUE,
         slug |-> <<"o", "l", "d", "-", i>>,
         category |-> IF i % 3 = 0 THEN <<>>
                      ELSE IF i % 2 = 1 THEN << <<"c", "1">> >>
                      ELSE << <<"c", "2">> >>,
         createdAt |-> IF i % 2 = 1 THEN n + i ELSE i]]

Query(category, page, limit) ==
    [category |-> category, page |-> page, limit |-> limit]

ListQueries ==
    [category : {<<>>, << <<"c", "1">> >>},
     page : {<<>>, << <<"2">> >>},
     limit : {<<>>, << <<"0">> >>, << <<"2">> >>}]
    \cup
    {Query(<< <<>> >>, << <<"1">> >>, << <<"1">> >>),
     Query(<<>>, << <<"3">> >>, << <<"2">> >>),
     Query(<<>>, << <<"1">> >>, << <<"1", "2">> >>)}

\* routes/posts.js line 20
NewListRequest(r) ==
    /\ pc[r] = "idle"
    /\ \E q \in ListQueries :
          req' = [req EXCEPT ![r] = [IdleReq EXCEPT !.method = "GET", !.query = q]]
    /\ pc' = [pc EXCEPT ![r] = "controller"]
    /\ UNCHANGED <<env, now, dbUp, users, posts, res, nextCalls, errLog>>
    /\ UNCHANGED unitVars

\* getPosts up to the await of line 25
ListFind(r) ==
    /\ pc[r] = "controller"
    /\ req[r].method = "GET"
    /\ req[r].id = "NONE"
    /\ \E found \in {FindPosts(req[r].query, posts, users, dbUp)} :
         IF found.threw
         THEN /\ Fail(r, found.error)
              /\ UNCHANGED req
         ELSE /\ req' = [req EXCEPT ![r].found = <<found.value>>]
              /\ pc' = [pc EXCEPT ![r] = "write"]
              /\ UNCHANGED <<res, errLog>>
    /\ UNCHANGED <<env, now, dbUp, users, posts, nextCalls>>
    /\ UNCHANGED unitVars

\* getPosts from the await of line 25: countDocuments, respond
ListCount(r) ==
    /\ pc[r] = "write"
    /\ req[r].method = "GET"
    /\ IF ~dbUp THEN Fail(r, MkError("MongoNetworkError", "Database error"))
       ELSE Answer(r, <<Response(200, req[r].found[1])>>, <<>>)
    /\ UNCHANGED <<env, now, dbUp, users, posts, req, nextCalls>>
    /\ UNCHANGED unitVars

InitList ==
    /\ env = "test"
    /\ now = 0
    /\ dbUp = TRUE
    /\ users = InitialUsers
    /\ posts \in {Listed(n) : n \in ListSizes}
    /\ pc = [r \in Reqs |-> "idle"]
    /\ req = [r \in Reqs |-> IdleReq]
    /\ res = [r \in Reqs |-> <<>>]
    /\ nextCalls = [r \in Reqs |-> <<>>]
    /\ errLog = [r \in Reqs |-> <<>>]
    /\ UnitIdle

NextList ==
    \/ \E r \in Reqs : NewListRequest(r)
    \/ \E r \in Reqs : ListFind(r)
    \/ \E r \in Reqs : ListCount(r)
    \/ \E r \in Reqs : Close(r)
    \/ DbFail
    \/ DbRecover

SpecList == InitList /\ [][NextList]_vars

----------------------------------------------------------------------------
(* The User and Post models called directly, as tests/unit/models call them: *)
(* a create or a save is prepared in memory (setters, validators, hooks) and *)
(* then written by the store in one atomic operation under its indexes       *)

\* String.prototype.toLowerCase
LowerCase(s) == [i \in 1..Len(s) |-> ToLower(s[i])]

\* models/User.js, the document User.create builds: username and email
\* trimmed, the email lowercased, the role 'user', the password hashed
NewUser(id, fields) ==
    [_id |-> id, username |-> Trim(fields.username),
     email |-> LowerCase(Trim(fields.email)), role |-> "user",
     password |-> "hash"]

UserSchemaErrors(doc) ==
    IF Len(doc.username) >= UsernameMin /\ Len(doc.username) <= UsernameMax
    THEN <<>> ELSE <<[message |-> "Username is out of range"]>>

\* the unique indexes on username and email
UsernameTaken(name, store) ==
    \E u \in UserIds : store[u] # NoUser /\ store[u].username = name
EmailTaken(email, store) ==
    \E u \in UserIds : store[u] # NoUser /\ store[u].email = email

FreshUserId(store) == CHOOSE u \in UserIds : store[u] = NoUser

\* the insert of a prepared user
InsertUser_noindex(doc, store, up) ==
    IF ~up THEN Threw(MkError("MongoNetworkError", "Database error"))
    ELSE Returned([doc EXCEPT !._id = FreshUserId(store)])
InsertUser(doc, store, up) ==
    IF ~up THEN Threw(MkError("MongoNetworkError", "Database error"))
    ELSE IF UsernameTaken(doc.username, store) THEN Threw(DuplicateKey("username"))
    ELSE IF EmailTaken(doc.email, store) THEN Threw(DuplicateKey("email"))
    ELSE Returned([doc EXCEPT !._id = FreshUserId(store)])

\* the insert of a prepared post
InsertPost(doc, store, up) ==
    IF ~up THEN Threw(MkError("MongoNetworkError", "Database error"))
    ELSE IF SlugTaken(doc.slug, "NONE", store) THEN Threw(DuplicateKey("slug"))
    ELSE Returned([doc EXCEPT !._id = FreshId(store)])

\* the update that post.save() sends for a changed title and slug
UpdatePost(doc, store, up) ==
    IF ~up THEN Threw(MkError("MongoNetworkError", "Database error"))
    ELSE IF SlugTaken(doc.slug, doc._id, store) THEN Threw(DuplicateKey("slug"))
    ELSE Returned([store[doc._id] EXCEPT !.title = doc.title, !.slug = doc.slug])

ModelNames == {<<"a", "n", "n">>, <<" ", "b", "o", "b">>, <<"a", "b", " ">>}
ModelEmails == {<<"a", "@", "x">>, <<"A", "@", "X">>, <<"b", "@", "x", " ">>}
ModelTitles == {OriginalTitle, <<"O", "L", "D">>}
ModelSlugs == {<<>>, << <<"n", "e", "w">> >>}

\* the creates in flight, which will need an id each
Inserting(kind) == {c \in Reqs : pc[c] = "insert" /\ op[c].kind = kind}

\* User.create(fields) up to its insert
PrepareUser(c) ==
    /\ pc[c] = "idle"
    /\ Cardinality(Inserting("createUser")) <
          Cardinality({u \in UserIds : users[u] = NoUser})
    /\ \E name \in ModelNames, email \in ModelEmails :
          LET doc == NewUser("NONE", [username |-> name, email |-> email]) IN
          IF UserSchemaErrors(doc) # <<>>
          THEN /\ op' = [op EXCEPT ![c] =
                         [kind |-> "createUser", doc |-> <<doc>>,
                          out |-> <<Threw(SchemaError(UserSchemaErrors(doc)))>>]]
               /\ pc' = [pc EXCEPT ![c] = "done"]
          ELSE /\ op' = [op EXCEPT ![c] =
                         [kind |-> "createUser", doc |-> <<doc>>, out |-> <<>>]]
               /\ pc' = [pc EXCEPT ![c] = "insert"]
    /\ UNCHANGED <<env, now, dbUp, users, posts, req, res, nextCalls, errLog>>
    /\ UNCHANGED <<ehVars, azVars, sideVars>>

\* Post.create(fields) up to its insert
PreparePost(c) ==
    /\ pc[c] = "idle"
    /\ Cardinality(Inserting("createPost")) < Cardinality(FreeIds(posts))
    /\ \E title \in ModelTitles, slug \in ModelSlugs :
          LET doc == NewPost("NONE", [title |-> title, content |-> LongContent,
                                      author |-> "u1", published |-> <<>>,
                                      slug |-> slug])
          IN /\ op' = [op EXCEPT ![c] =
                         [kind |-> "createPost", doc |-> <<doc>>, out |-> <<>>]]
             /\ pc' = [pc EXCEPT ![c] = "insert"]
    /\ UNCHANGED <<env, now, dbUp, users, posts, req, res, nextCalls, errLog>>
    /\ UNCHANGED <<ehVars, azVars, sideVars>>

\* post.title = title; post.save() up to its update: the pre-save hook gives a
\* post whose slug was derived the slug of the new title; for a post whose
\* slug was supplied the hook may keep the slug or derive it
PrepareSave(c) ==
    /\ pc[c] = "idle"
    /\ \E p \in PostIds, title \in ModelTitles :
          /\ posts[p] # NoPost
          /\ Trim(title) # posts[p].title
          /\ \E slug \in (IF posts[p].slug = Slugify(posts[p].title)
                           THEN {Slugify(Trim(title))}
                           ELSE {Slugify(Trim(title)), posts[p].slug}) :
                op' = [op EXCEPT ![c] =
                         [kind |-> "savePost",
                          doc |-> <<[posts[p] EXCEPT !.title = Trim(title),
                                                     !.slug = slug]>>,
                          out |-> <<>>]]
    /\ pc' = [pc EXCEPT ![c] = "insert"]
    /\ UNCHANGED <<env, now, dbUp, users, posts, req, res, nextCalls, errLog>>
    /\ UNCHANGED <<ehVars, azVars, sideVars>>

\* the store's write of the prepared document
Write(c) ==
    /\ pc[c] = "insert"
    /\ LET doc == op[c].doc[1]
           made == CASE op[c].kind = "createUser" -> InsertUser(doc, users, dbUp)
                     [] op[c].kind = "createPost" -> InsertPost(doc, posts, dbUp)
                     [] OTHER -> UpdatePost(doc, posts, dbUp)
       IN
         /\ op' = [op EXCEPT ![c].out = <<made>>]
         /\ pc' = [pc EXCEPT ![c] = "done"]
         /\ users' = IF op[c].kind = "createUser" /\ ~made.threw
                      THEN [users EXCEPT ![made.value._id] = made.value]
                      ELSE users
         /\ posts' = IF op[c].kind # "createUser" /\ ~made.threw
                      THEN [posts EXCEPT ![made.value._id] = made.value]
                      ELSE posts
    /\ UNCHANGED <<env, now, dbUp, req, res, nextCalls, errLog>>
    /\ UNCHANGED <<ehVars, azVars, sideVars>>

\* the caller takes the outcome
Return(c) ==
    /\ pc[c] = "done"
    /\ pc' = [pc EXCEPT ![c] = "idle"]
    /\ op' = [op EXCEPT ![c] = NoOp]
    /\ UNCHANGED <<env, now, dbUp, users, posts, req, res, nextCalls, errLog>>
    /\ UNCHANGED <<ehVars, azVars, sideVars>>

InitModels ==
    /\ env = "test"
    /\ now = 0
    /\ dbUp = TRUE
    /\ users = [u \in UserIds |-> NoUser]
    /\ posts = [p \in PostIds |-> NoPost]
    /\ pc = [r \in Reqs |-> "idle"]
    /\ req = [r \in Reqs |-> IdleReq]
    /\ res = [r \in Reqs |-> <<>>]
    /\ nextCalls = [r \in Reqs |-> <<>>]
    /\ errLog = [r \in Reqs |-> <<>>]
    /\ UnitIdle

NextModels ==
    \/ \E c \in Reqs : PrepareUser(c)
    \/ \E c \in Reqs : PreparePost(c)
    \/ \E c \in Reqs : PrepareSave(c)
    \/ \E c \in Reqs : Write(c)
    \/ \E c \in Reqs : Return(c)

SpecModels == InitModels /\ [][NextModels]_vars

----------------------------------------------------------------------------
(* protect called directly, as tests/unit/middleware/auth.test.js calls it: *)
(* any header, the clock running, the store failing and recovering          *)

InitProtect ==
    /\ env = "test"
    /\ now = 0
    /\ dbUp \in BOOLEAN
    /\ users = InitialUsers
    /\ posts = InitialPosts
    /\ pc = [r \in Reqs |-> "protect"]
    /\ req \in [Reqs -> {[IdleReq EXCEPT !.authorization = a] : a \in AllHeaders}]
    /\ res = [r \in Reqs |-> <<>>]
    /\ nextCalls = [r \in Reqs |-> <<>>]
    /\ errLog = [r \in Reqs |-> <<>>]
    /\ UnitIdle

NextProtect ==
    \/ \E r \in Reqs : Protect(r)
    \/ Tick
    \/ DbFail
    \/ DbRecover

SpecProtect == InitProtect /\ [][NextProtect]_vars

----------------------------------------------------------------------------
(* errorHandler called directly, as tests/unit/middleware/errorHandler.test.js *)
(* calls it: one error value with any of its fields present or absent          *)

ErrNames ==
    {"CastError", "ValidationError", "JsonWebTokenError", "TokenExpiredError",
     "Error"}

Maybe(S) == {<<>>} \cup {<<x>> : x \in S}

ErrInputs ==
    [name : Maybe(ErrNames),
     code : Maybe({DuplicateKeyCode, DuplicateKeyCode + 1}),
     statusCode : Maybe({404}),
     message : Maybe({"Something went wrong"}),
     keyPattern : Maybe({<<"email">>}),
     errors : Maybe({<<[message |-> "Email is required"],
                       [message |-> "Password is required"]>>}),
     stack : Maybe({"Error stack trace"})]

TestCtx == [url |-> "/api/test", method |-> "GET", ip |-> "127.0.0.1"]

InitEH ==
    /\ env \in Envs
    /\ ServerIdle
    /\ err \in ErrInputs
    /\ ehOut = <<>>
    /\ azRoles = <<>>
    /\ azUser = NoUser
    /\ azOut = <<>>
    /\ op = [c \in Reqs |-> NoOp]
    /\ SideIdle

HandleError ==
    /\ ehOut = <<>>
    /\ ehOut' = <<errorHandler(err, TestCtx, env)>>
    /\ UNCHANGED <<err, serverVars, azVars, op, sideVars>>

NextEH == HandleError

SpecEH == InitEH /\ [][NextEH]_vars

----------------------------------------------------------------------------
(* authorize(...roles) called directly: any allow-set, any role of req.user *)

MaxRoles == 2       \* the longest allow-set

RECURSIVE SeqsUpTo(_, _)
SeqsUpTo(S, n) ==
    IF n = 0 THEN {<<>>}
    ELSE SeqsUpTo(S, n - 1) \cup
         {Append(q, x) : q \in {t \in SeqsUpTo(S, n - 1) : Len(t) = n - 1}, x \in S}

InitAuthorize ==
    /\ env = "test"
    /\ ServerIdle
    /\ err = NoErr
    /\ ehOut = <<>>
    /\ azRoles \in SeqsUpTo(Roles, MaxRoles)
    /\ azUser \in {[_id |-> "u1", role |-> role] : role \in Roles}
    /\ azOut = <<>>
    /\ op = [c \in Reqs |-> NoOp]
    /\ SideIdle

Authorize ==
    /\ azOut = <<>>
    /\ azOut' = <<authorize(azRoles, azUser)>>
    /\ UNCHANGED <<azRoles, azUser, serverVars, ehVars, op, sideVars>>

NextAuthorize == Authorize

SpecAuthorize == InitAuthorize /\ [][NextAuthorize]_vars

----------------------------------------------------------------------------
(* utils/auth.js called directly, as tests/unit/utils/auth.test.js calls it: *)
(* any user object, any token, the clock running                             *)

\* the arguments of generateToken: null or undefined, or an object whose _id
\* and email are each present or absent
Subjects ==
    {NoUser} \cup [_id : Maybe({"u1", "u2"}), email : Maybe({"a@example.com"})]

\* utils/auth.js lines 9-15 for any argument: null and undefined have no _id
\* to read; JSON.stringify leaves out a claim whose value is undefined
generateTokenOf(user, t) ==
    IF user = NoUser
    THEN Threw(MkError("TypeError", "Cannot read properties of null"))
    ELSE IF user._id # <<>> /\ user.email # <<>>
    THEN Returned(generateToken([_id |-> user._id[1], email |-> user.email[1]], t))
    ELSE LET given == [id |-> user._id, email |-> user.email]
             kept == {k \in DOMAIN given : given[k] # <<>>}
             claims == [k \in kept \cup {"iat", "exp"} |->
                          IF k = "iat" THEN <<t>>
                          ELSE IF k = "exp" THEN <<t + TokenTTL>>
                          ELSE given[k]]
         IN Returned(<<[jwt |-> [k \in DOMAIN claims |-> claims[k][1]],
                        sig |-> JWT_SECRET]>>)

\* the tokens verifyToken is given besides the one generateToken made: the
\* empty string, 'invalid.token.here', one signed with 'wrong-secret'
TokenInputs == {<<>>, JunkToken, ForeignToken}

\* generateToken(user)
Generate ==
    /\ tk.issued = <<>>
    /\ \E u \in Subjects :
          tk' = [tk EXCEPT !.user = u, !.issued = <<generateTokenOf(u, now)>>]
    /\ UNCHANGED <<serverVars, ehVars, azVars, op, lg, form>>

\* verifyToken(token)
Verify ==
    /\ tk.verified = <<>>
    /\ \E token \in TokenInputs \cup
                     {tk.issued[i].value : i \in {j \in DOMAIN tk.issued :
                                                     ~tk.issued[j].threw}} :
          tk' = [tk EXCEPT !.token = token, !.at = now,
                           !.verified = <<verifyToken(token, now)>>]
    /\ UNCHANGED <<serverVars, ehVars, azVars, op, lg, form>>

\* the test ends
Forget ==
    /\ tk.verified # <<>>
    /\ tk' = NoToken
    /\ UNCHANGED <<serverVars, ehVars, azVars, op, lg, form>>

InitToken ==
    /\ env = "test"
    /\ ServerIdle
    /\ UnitIdle

NextToken ==
    \/ Generate
    \/ Verify
    \/ Forget
    \/ Tick

SpecToken == InitToken /\ [][NextToken]_vars

----------------------------------------------------------------------------
(* middleware/requestLogger.js, any number of requests in flight *)

LogUrls == {"/api/test", "/api/other"}
LogStatuses == {200, 500}

\* line 24: the request was slow
IsSlow_atleast(duration) == duration >= SlowMs
IsSlow(duration) == duration > SlowMs

\* lines 12-30, the listener of 'finish': what it passes to logger.info and
\* logger.warn, in order; `${duration}ms` is the number tagged ms
FinishRecords(url, status, duration) ==
    <<[level |-> "info", message |-> "Request", method |-> "GET", url |-> url,
       status |-> status, duration |-> [ms |-> duration], ip |-> "127.0.0.1",
       userAgent |-> "Test User Agent"]>>
    \o
    (IF IsSlow(duration)
     THEN <<[level |-> "warn", message |-> "Slow request detected",
             method |-> "GET", url |-> url, duration |-> [ms |-> duration]]>>
     ELSE <<>>)

\* lines 7-34: requestLogger(req, res, next) reads the clock, registers the
\* listener and calls next
RequestLogger(r) ==
    /\ lg.reqs[r].startTime = <<>>
    /\ \E url \in LogUrls :
          lg' = [lg EXCEPT !.reqs[r] =
                    [@ EXCEPT !.url = <<url>>, !.startTime = <<lg.clock>>,
                              !.next = @ + 1]]
    /\ UNCHANGED <<serverVars, ehVars, azVars, op, tk, form>>

\* the response emits 'finish', once: the listener runs
Finish(r) ==
    /\ lg.reqs[r].startTime # <<>>
    /\ lg.reqs[r].finishTime = <<>>
    /\ ~lg.reqs[r].closed
    /\ \E status \in LogStatuses :
          lg' = [lg EXCEPT !.reqs[r] =
                    [@ EXCEPT !.finishTime = <<lg.clock>>,
                              !.log = @ \o FinishRecords(lg.reqs[r].url[1], status,
                                              lg.clock - lg.reqs[r].startTime[1])]]
    /\ UNCHANGED <<serverVars, ehVars, azVars, op, tk, form>>

\* the connection closes, after the response finished or before it could
LogClose(r) ==
    /\ lg.reqs[r].startTime # <<>>
    /\ ~lg.reqs[r].closed
    /\ lg' = [lg EXCEPT !.reqs[r].closed = TRUE]
    /\ UNCHANGED <<serverVars, ehVars, azVars, op, tk, form>>

\* the slot serves another request
LogReuse(r) ==
    /\ lg.reqs[r].closed
    /\ lg' = [lg EXCEPT !.reqs[r] = NoLog]
    /\ UNCHANGED <<serverVars, ehVars, azVars, op, tk, form>>

\* Date.now() advances
LogTick ==
    /\ lg.clock + ClockStepMs <= MaxClockMs
    /\ lg' = [lg EXCEPT !.clock = @ + ClockStepMs]
    /\ UNCHANGED <<serverVars, ehVars, azVars, op, tk, form>>

InitLogger ==
    /\ env = "development"
    /\ ServerIdle
    /\ UnitIdle

NextLogger ==
    \/ \E r \in Reqs : RequestLogger(r)
    \/ \E r \in Reqs : Finish(r)
    \/ \E r \in Reqs : LogClose(r)
    \/ \E r \in Reqs : LogReuse(r)
    \/ LogTick

SpecLogger == InitLogger /\ [][NextLogger]_vars

----------------------------------------------------------------------------
(* components/Form.jsx, rendered with the fields of its tests; React renders *)
(* again after every event, so each handler sees the state the last left    *)

NoValidation ==
    [required |-> FALSE, requiredMessage |-> <<>>,
     minLength |-> <<>>, minLengthMessage |-> <<>>,
     maxLength |-> <<>>, maxLengthMessage |-> <<>>,
     pattern |-> <<>>, patternMessage |-> <<>>, custom |-> <<>>]

\* basicFields and fieldsWithCustom of the tests
FormFields ==
    <<[name |-> "email",
       validation |-> <<[NoValidation EXCEPT
                           !.required = TRUE, !.pattern = <<"email">>,
                           !.patternMessage = <<"Please provide a valid email">>]>>],
      [name |-> "password",
       validation |-> <<[NoValidation EXCEPT
                           !.required = TRUE, !.minLength = <<PasswordMin>>,
                           !.minLengthMessage =
                               <<"Password must be at least 6 characters">>]>>],
      [name |-> "username",
       validation |-> <<[NoValidation EXCEPT
                           !.required = TRUE, !.custom = <<"nospaces">>]>>]>>

FieldNames == {FormFields[i].name : i \in DOMAIN FormFields}

\* fields.find((f) => f.name === name)?.validation
ValidationOf(name) ==
    (CHOOSE f \in {FormFields[i] : i \in DOMAIN FormFields} : f.name = name).validation

\* /^[^\s@]+@[^\s@]+\.[^\s@]+$/.test(value): no space, one @ that is not
\* first, and after it a dot that is neither next to it nor last
EmailPattern(value) ==
    /\ \A i \in DOMAIN value : ~IsSpace(value[i])
    /\ \E i \in DOMAIN value :
          /\ value[i] = "@"
          /\ \A j \in DOMAIN value : value[j] = "@" => j = i
          /\ i > 1
          /\ \E j \in DOMAIN value : value[j] = "." /\ j > i + 1 /\ j < Len(value)

\* the custom validator of fieldsWithCustom
NoSpaces(value) ==
    IF Includes(value, " ") THEN "Username cannot contain spaces" ELSE ""

\* lines 13-37: '' or the message of the first rule the value breaks
validateField(value, validation) ==
    IF validation = <<>> THEN ""
    ELSE LET v == validation[1] IN
         IF v.required /\ value = <<>>
         THEN (IF v.requiredMessage # <<>> THEN v.requiredMessage[1]
               ELSE "This field is required")
         ELSE IF v.minLength # <<>> /\ v.minLength[1] # 0 /\ Len(value) < v.minLength[1]
         THEN (IF v.minLengthMessage # <<>> THEN v.minLengthMessage[1]
               ELSE "Minimum " \o ToString(v.minLength[1]) \o " characters required")
         ELSE IF v.maxLength # <<>> /\ v.maxLength[1] # 0 /\ Len(value) > v.maxLength[1]
         THEN (IF v.maxLengthMessage # <<>> THEN v.maxLengthMessage[1]
               ELSE "Maximum " \o ToString(v.maxLength[1]) \o " characters allowed")
         ELSE IF v.pattern # <<>> /\ ~EmailPattern(value)
         THEN (IF v.patternMessage # <<>> THEN v.patternMessage[1]
               ELSE "Invalid format")
         ELSE IF v.custom # <<>> THEN NoSpaces(value)
         ELSE ""

\* values[name] || ''
ValueOf(values, name) == IF name \in DOMAIN values THEN values[name] ELSE <<>>

\* { ...prev, [name]: x }
With(obj, name, x) ==
    [k \in DOMAIN obj \cup {name} |-> IF k = name THEN x ELSE obj[k]]

\* lines 39-49: handleChange; the error is set only if the field is touched
handleChange_always(f, name, value) ==
    [f EXCEPT !.values = With(@, name, value),
              !.errors = With(@, name, validateField(value, ValidationOf(name))),
              !.last = "change"]
handleChange(f, name, value) ==
    [f EXCEPT !.values = With(@, name, value),
              !.errors = IF name \in f.touched
                         THEN With(@, name, validateField(value, ValidationOf(name)))
                         ELSE @,
              !.last = "change"]

\* lines 51-59: handleBlur; e.target.value is the value the input shows
handleBlur(f, name) ==
    [f EXCEPT !.touched = @ \cup {name},
              !.errors = With(@, name, validateField(ValueOf(f.values, name),
                                                     ValidationOf(name))),
              !.last = "blur"]

\* lines 65-71: newErrors, the messages of the failing fields
NewErrors(values) ==
    LET failing == {n \in FieldNames :
                      validateField(ValueOf(values, n), ValidationOf(n)) # ""}
    IN [n \in failing |-> validateField(ValueOf(values, n), ValidationOf(n))]

\* lines 61-82: handleSubmit
handleSubmit_stale(f) ==
    [f EXCEPT !.errors = NewErrors(f.values),
              !.touched = FieldNames,
              !.submitted = IF \A n \in DOMAIN f.errors : f.errors[n] = ""
                            THEN Append(@, f.values) ELSE @,
              !.last = "submit"]
handleSubmit(f) ==
    [f EXCEPT !.errors = NewErrors(f.values),
              !.touched = FieldNames,
              !.submitted = IF DOMAIN NewErrors(f.values) = {}
                            THEN Append(@, f.values) ELSE @,
              !.last = "submit"]

\* what the tests type into each input, and the empty string
Typed(name) ==
    {<<>>} \cup
    (IF name = "email"
     THEN {<<"b", "a", "d">>, <<"a", "@", "b", ".", "c">>}
     ELSE IF name = "password"
     THEN {Repeat("1", PasswordMin - 1), Repeat("1", PasswordMin)}
     ELSE {<<"a", " ", "b">>, <<"a", "b">>})

Change ==
    /\ \E name \in FieldNames :
          \E value \in Typed(name) : form' = handleChange(form, name, value)
    /\ UNCHANGED <<serverVars, ehVars, azVars, op, tk, lg>>

Blur ==
    /\ \E name \in FieldNames : form' = handleBlur(form, name)
    /\ UNCHANGED <<serverVars, ehVars, azVars, op, tk, lg>>

Submit ==
    /\ Len(form.submitted) < MaxSubmits
    /\ form' = handleSubmit(form)
    /\ UNCHANGED <<serverVars, ehVars, azVars, op, tk, lg>>

InitForm ==
    /\ env = "test"
    /\ ServerIdle
    /\ UnitIdle

NextForm ==
    \/ Change
    \/ Blur
    \/ Submit

SpecForm == InitForm /\ [][NextForm]_vars

----------------------------------------------------------------------------
(* app.js and routes/test.js: POST /api/test/seed and POST /api/test/clear, *)
(* the server started in any environment                                    *)

\* app.js line 23: the test routes are mounted
Mounted_always(mode) == TRUE
Mounted(mode) == mode = "test"

\* app.js lines 33-35
RouteNotFound == Response(404, [error |-> "Route not found"])

\* lines 41-43 and 55-57: catch (error)
TestRouteFailed(error) == Response(500, [error |-> error.message[1]])

\* routes/test.js lines 13-24
TestUsers ==
    <<[username |-> <<"t", "e", "s", "t", "u", "s", "e", "r", "1">>,
       email |-> <<"t", "e", "s", "t", "1", "@", "e", "x", "a", "m", "p", "l", "e",
                   ".", "c", "o", "m">>],
      [username |-> <<"t", "e", "s", "t", "u", "s", "e", "r", "2">>,
       email |-> <<"t", "e", "s", "t", "2", "@", "e", "x", "a", "m", "p", "l", "e",
                   ".", "c", "o", "m">>]>>

\* routes/test.js lines 27-38, the authors being the users just made
TestPosts(authors) ==
    [i \in 1..2 |->
        [title |-> <<"T", "e", "s", "t", " ", "P", "o", "s", "t", " ">> \o
                   <<IF i = 1 THEN "1" ELSE "2">>,
         content |-> <<"T", "h", "i", "s", " ", "i", "s", " ", "t", "e", "s", "t">>,
         author |-> authors[i], published |-> <<>>, slug |-> <<>>]]

\* User.create([...]) of line 13: the first user is saved, then the second; a
\* user saved before a failure stays
CreateTestUsers(store, up) ==
    LET first == InsertUser(NewUser("NONE", TestUsers[1]), store, up)
        one == [store EXCEPT ![first.value._id] = first.value]
        second == InsertUser(NewUser("NONE", TestUsers[2]), one, up)
    IN IF first.threw THEN [store |-> store, out |-> first]
       ELSE IF second.threw THEN [store |-> one, out |-> second]
       ELSE [store |-> [one EXCEPT ![second.value._id] = second.value],
             out |-> Returned(<<first.value._id, second.value._id>>)]

\* Post.create([...]) of line 27
CreateTestPosts(authors, store, up) ==
    LET first == PostCreate(TestPosts(authors)[1], store, up)
        one == [store EXCEPT ![first.value._id] = first.value]
        second == PostCreate(TestPosts(authors)[2], one, up)
    IN IF first.threw THEN [store |-> store, out |-> first]
       ELSE IF second.threw THEN [store |-> one, out |-> second]
       ELSE [store |-> [one EXCEPT ![second.value._id] = second.value],
             out |-> Returned(<<first.value._id, second.value._id>>)]

\* a request to one of the two paths arrives: unless the router is mounted it
\* falls through to the 404 handler; req.found will hold the users seeded
TestRequest(r) ==
    /\ pc[r] = "idle"
    /\ \E path \in {"seed", "clear"} :
          /\ req' = [req EXCEPT ![r] =
                       [path |-> path] @@ [IdleReq EXCEPT !.method = "POST"]]
          /\ IF Mounted(env)
             THEN /\ pc' = [pc EXCEPT ![r] = path]
                  /\ UNCHANGED <<res, errLog>>
             ELSE Answer(r, <<RouteNotFound>>, <<>>)
    /\ UNCHANGED <<env, now, dbUp, users, posts, nextCalls>>
    /\ UNCHANGED unitVars

\* lines 13-24, and the catch of line 41
SeedUsers(r) ==
    /\ pc[r] = "seed"
    /\ LET made == CreateTestUsers(users, dbUp) IN
         /\ users' = made.store
         /\ IF made.out.threw
            THEN /\ Answer(r, <<TestRouteFailed(made.out.error)>>, <<>>)
                 /\ UNCHANGED req
            ELSE /\ req' = [req EXCEPT ![r].found = made.out.value]
                 /\ pc' = [pc EXCEPT ![r] = "seedPosts"]
                 /\ UNCHANGED <<res, errLog>>
    /\ UNCHANGED <<env, now, dbUp, posts, nextCalls>>
    /\ UNCHANGED unitVars

\* lines 27-40, and the catch of line 41
SeedPosts(r) ==
    /\ pc[r] = "seedPosts"
    /\ LET made == CreateTestPosts(req[r].found, posts, dbUp) IN
         /\ posts' = made.store
         /\ IF made.out.threw
            THEN Answer(r, <<TestRouteFailed(made.out.error)>>, <<>>)
            ELSE Answer(r, <<Response(200, [message |-> "Database seeded successfully"])>>,
                        <<>>)
    /\ UNCHANGED <<env, now, dbUp, users, req, nextCalls>>
    /\ UNCHANGED unitVars

\* line 52, and the catch of line 55
ClearUsers(r) ==
    /\ pc[r] = "clear"
    /\ IF dbUp
       THEN /\ users' = [u \in UserIds |-> NoUser]
            /\ pc' = [pc EXCEPT ![r] = "clearPosts"]
            /\ UNCHANGED <<res, errLog>>
       ELSE /\ Answer(r, <<TestRouteFailed(MkError("MongoNetworkError",
                                                    "Database error"))>>, <<>>)
            /\ UNCHANGED users
    /\ UNCHANGED <<env, now, dbUp, posts, req, nextCalls>>
    /\ UNCHANGED unitVars

\* lines 53-54, and the catch of line 55
ClearPosts(r) ==
    /\ pc[r] = "clearPosts"
    /\ IF dbUp
       THEN /\ posts' = [p \in PostIds |-> NoPost]
            /\ Answer(r, <<Response(200, [message |-> "Database cleared successfully"])>>,
                      <<>>)
       ELSE /\ Answer(r, <<TestRouteFailed(MkError("MongoNetworkError",
                                                    "Database error"))>>, <<>>)
            /\ UNCHANGED posts
    /\ UNCHANGED <<env, now, dbUp, users, req, nextCalls>>
    /\ UNCHANGED unitVars

\* a database that holds what a seed leaves
Seeded ==
    LET u == CreateTestUsers([v \in UserIds |-> NoUser], TRUE)
        p == CreateTestPosts(u.out.value, [q \in PostIds |-> NoPost], TRUE)
    IN [users |-> u.store, posts |-> p.store]

\* the database is empty or seeded when the server starts
InitTestRoutes ==
    /\ env \in Envs
    /\ now = 0
    /\ dbUp = TRUE
    /\ \/ users = Seeded.users /\ posts = Seeded.posts
       \/ users = [u \in UserIds |-> NoUser] /\ posts = [p \in PostIds |-> NoPost]
    /\ pc = [r \in Reqs |-> "idle"]
    /\ req = [r \in Reqs |-> IdleReq]
    /\ res = [r \in Reqs |-> <<>>]
    /\ nextCalls = [r \in Reqs |-> <<>>]
    /\ errLog = [r \in Reqs |-> <<>>]
    /\ UnitIdle

NextTestRoutes ==
    \/ \E r \in Reqs : TestRequest(r)
    \/ \E r \in Reqs : SeedUsers(r)
    \/ \E r \in Reqs : SeedPosts(r)
    \/ \E r \in Reqs : ClearUsers(r)
    \/ \E r \in Reqs : ClearPosts(r)
    \/ \E r \in Reqs : Close(r)
    \/ DbFail
    \/ DbRecover

SpecTestRoutes == InitTestRoutes /\ [][NextTestRoutes]_vars

----------------------------------------------------------------------------
(* The server: every posts route, each request served to its end.  A store  *)
(* operation settles, by resolving or rejecting, and the event loop then    *)
(* runs the continuation that awaits it: a handler's step that stays        *)
(* enabled is taken                                                         *)

\* routes/posts.js lines 20-24: the steps of the handlers of the five routes
Serve(r) ==
    \/ Protect(r)
    \/ ListFind(r)
    \/ ListCount(r)
    \/ GetPost(r)
    \/ CreateInsert(r)
    \/ CreateRespond(r)
    \/ UpdateFind(r)
    \/ UpdateWrite(r)
    \/ DeleteFind(r)
    \/ DeleteWrite(r)

\* the collection is the one the routes by id and the creates work on, or
\* one of those that are listed
InitLive ==
    /\ env = "production"
    /\ now = 0
    /\ dbUp = TRUE
    /\ users = InitialUsers
    /\ posts \in {InitialPosts} \cup {Listed(n) : n \in ListSizes}
    /\ pc = [r \in Reqs |-> "idle"]
    /\ req = [r \in Reqs |-> IdleReq]
    /\ res = [r \in Reqs |-> <<>>]
    /\ nextCalls = [r \in Reqs |-> <<>>]
    /\ errLog = [r \in Reqs |-> <<>>]
    /\ UnitIdle

NextLive ==
    \/ \E r \in Reqs : DOMAIN posts = PostIds /\ NewRequest(r)
    \/ \E r \in Reqs :
          /\ DOMAIN posts = PostIds
          /\ NewCreateRequest(r)
          /\ Len(req'[r].body.title) <= Len(NewTitle)
    \/ \E r \in Reqs : DOMAIN posts # PostIds /\ NewListRequest(r)
    \/ \E r \in Reqs : Serve(r)
    \/ DbFail
    \/ DbRecover

SpecLive ==
    /\ InitLive
    /\ [][NextLive]_vars
    /\ \A r \in Reqs : WF_vars(Serve(r))

----------------------------------------------------------------------------
(* Properties of utils/auth.js *)

\* the user has an id and an email
Complete(u) == u # NoUser /\ u._id # <<>> /\ u.email # <<>>

\* verifyToken was given the token generateToken returned
VerifiedOwn ==
    /\ tk.verified # <<>>
    /\ tk.issued # <<>>
    /\ ~tk.issued[1].threw
    /\ tk.token = tk.issued[1].value

\* C21: for a user with an id and an email, verifyToken of the token that
\* generateToken made, called before the token's expiry, returns claims with
\* the user's id and email and an expiry later than the issued-at time.
VerifyOfGenerateReturnsClaims ==
    (Complete(tk.user) /\ VerifiedOwn /\ tk.at < tk.token[1].jwt.exp) =>
        LET v == tk.verified[1] IN
        /\ ~v.threw
        /\ v.value.id = tk.user._id[1]
        /\ v.value.email = tk.user.email[1]
        /\ v.value.exp > v.value.iat

\* a token verified some time after it was made and before it expired
OwnTokenVerifiedLater ==
    /\ Complete(tk.user)
    /\ VerifiedOwn
    /\ tk.at > tk.token[1].jwt.iat
    /\ tk.at < tk.token[1].jwt.exp
    /\ ~tk.verified[1].threw

\* the token is no compact JWT
Malformed(token) == ~(Len(token) = 1 /\ DOMAIN token[1] = {"jwt", "sig"})

InvalidToken(v) ==
    /\ v.threw
    /\ v.error.name = <<"Error">>
    /\ v.error.message = <<"Invalid token">>

\* C22, as claimed: verifyToken fails with 'Invalid token' for a malformed
\* token, one signed with another secret and one whose expiry is strictly
\* before the verification time, and returns the claims of every other token.
VerifyFailsIffMalformedForeignOrPastExpiry ==
    tk.verified # <<>> =>
        IF \/ Malformed(tk.token)
           \/ tk.token[1].sig # JWT_SECRET
           \/ tk.token[1].jwt.exp < tk.at
        THEN InvalidToken(tk.verified[1])
        ELSE tk.verified[1] = Returned(tk.token[1].jwt)

\* C22, amended: verifyToken fails with 'Invalid token' for a malformed
\* token, one signed with another secret and one whose expiry is at or before
\* the verification time, and returns the claims of every other token.
VerifyFailsIffMalformedForeignOrExpired ==
    tk.verified # <<>> =>
        IF \/ Malformed(tk.token)
           \/ tk.token[1].sig # JWT_SECRET
           \/ tk.token[1].jwt.exp <= tk.at
        THEN InvalidToken(tk.verified[1])
        ELSE tk.verified[1] = Returned(tk.token[1].jwt)

\* a token verified at the very time of its expiry is refused
VerifiedAtExpiryRefused ==
    /\ VerifiedOwn
    /\ tk.token[1].jwt.exp = tk.at
    /\ InvalidToken(tk.verified[1])

\* C23: generateToken fails, and makes no token, for a null or undefined user
\* and for a user lacking an id or an email.
GenerateRequiresIdAndEmail ==
    (tk.issued # <<>> /\ ~Complete(tk.user)) => tk.issued[1].threw

----------------------------------------------------------------------------
(* Properties of requestLogger *)

Records(r, message) == SelectSeq(lg.reqs[r].log, LAMBDA x : x.message = message)

\* the records a request has, given whether its response finished and when
LoggedAsFinished(r) ==
    LET q == lg.reqs[r] IN
    /\ q.next = (IF q.startTime = <<>> THEN 0 ELSE 1)
    /\ Len(q.log) = Len(Records(r, "Request")) + Len(Records(r, "Slow request detected"))
    /\ IF q.finishTime = <<>> THEN q.log = <<>>
       ELSE LET duration == q.finishTime[1] - q.startTime[1] IN
            /\ Len(Records(r, "Request")) = 1
            /\ Records(r, "Request")[1].level = "info"
            /\ Records(r, "Request")[1].duration = [ms |-> duration]
            /\ Len(Records(r, "Slow request detected")) =
                   (IF duration > SlowMs THEN 1 ELSE 0)
            /\ \A i \in DOMAIN Records(r, "Slow request detected") :
                   Records(r, "Slow request detected")[i].level = "warn"

\* the step in which next is called: nothing is logged yet
NextBeforeLog(r) ==
    lg'.reqs[r].next > lg.reqs[r].next =>
        /\ lg.reqs[r].next = 0
        /\ lg'.reqs[r].next = 1
        /\ lg'.reqs[r].log = <<>>

\* C24: for every request, whatever else is in flight, requestLogger calls
\* next exactly once, before anything is logged; the request has exactly one
\* 'Request' info record when and only when its response emitted finish, and
\* a 'Slow request detected' warning as well iff the duration is above 1000 ms.
LoggerLogsOncePerFinish ==
    /\ [](\A r \in Reqs : LoggedAsFinished(r))
    /\ [][\A r \in Reqs : NextBeforeLog(r)]_vars

\* two requests in flight: one finished after exactly 1000 ms without a
\* warning, the other after more with one
SlowAndNotSlowFinished ==
    \E r, q \in Reqs :
        /\ lg.reqs[r].finishTime # <<>>
        /\ lg.reqs[r].finishTime[1] - lg.reqs[r].startTime[1] = SlowMs
        /\ Len(lg.reqs[r].log) = 1
        /\ lg.reqs[q].finishTime # <<>>
        /\ lg.reqs[q].finishTime[1] - lg.reqs[q].startTime[1] > SlowMs
        /\ Len(lg.reqs[q].log) = 2
        /\ lg.reqs[q].startTime[1] < lg.reqs[r].finishTime[1]
        /\ lg.reqs[r].startTime[1] < lg.reqs[q].finishTime[1]

----------------------------------------------------------------------------
(* Properties of the Form *)

\* the validation result of the field's current value
Result(f, name) == validateField(ValueOf(f.values, name), ValidationOf(name))

\* errors[name], undefined read as no error (lines 103 and 121)
ErrorOf(f, name) == IF name \in DOMAIN f.errors THEN f.errors[name] ELSE ""

\* C25: after any changes and blurs, submitting calls onSubmit, with the
\* current values, iff every field's current value passes its validation;
\* otherwise onSubmit is not called, every field is touched and every failing
\* field's error is recorded.
SubmitCallsOnSubmitIffAllValid ==
    [][form'.last = "submit" =>
         IF \A n \in FieldNames : Result(form, n) = ""
         THEN form'.submitted = Append(form.submitted, form.values)
         ELSE /\ form'.submitted = form.submitted
              /\ form'.touched = FieldNames
              /\ \A n \in FieldNames :
                    Result(form, n) # "" => ErrorOf(form', n) = Result(form, n)]_vars

\* onSubmit was called once, and a later submit of a value made invalid was
\* refused
SubmittedThenRefused ==
    /\ form.last = "submit"
    /\ Len(form.submitted) = 1
    /\ \E n \in FieldNames : Result(form, n) # "" /\ ErrorOf(form, n) # ""

\* C26: each touched field's recorded error is the validation result of its
\* current value, and a change of a field never touched validates nothing.
TouchedErrorsCurrent ==
    /\ [](\A n \in form.touched : ErrorOf(form, n) = Result(form, n))
    /\ [][form'.last = "change" /\ form'.touched = form.touched =>
            \A n \in FieldNames \ form.touched :
                ErrorOf(form', n) = ErrorOf(form, n)]_vars

\* a touched field whose error was cleared by a valid value, next to an
\* invalid field never touched and without an error
ErrorClearedUntouchedNotValidated ==
    /\ form.last = "change"
    /\ \E n \in form.touched :
          n \in DOMAIN form.errors /\ form.errors[n] = "" /\ ValueOf(form.values, n) # <<>>
    /\ \E n \in FieldNames \ form.touched :
          n \in DOMAIN form.values /\ Result(form, n) # "" /\ ErrorOf(form, n) = ""

----------------------------------------------------------------------------
(* Properties of the test routes *)

\* C27: unless the server was started in the test environment, a request to
\* /api/test/seed or /api/test/clear is answered 404 {error: 'Route not found'}
\* and no stored user or post changes.
TestRoutesOnlyInTest ==
    [][env # "test" =>
         /\ users' = users
         /\ posts' = posts
         /\ \A r \in Reqs :
               pc'[r] = "idle" \/
               (pc'[r] = "done" /\ res'[r] = <<RouteNotFound>>)]_vars

\* outside the test environment, a clear of a seeded database answered 404
ClearRefusedInProduction ==
    \E r \in Reqs :
        /\ env = "production"
        /\ pc[r] = "done"
        /\ req[r].path = "clear"
        /\ res[r] = <<RouteNotFound>>
        /\ posts = Seeded.posts
        /\ users = Seeded.users

----------------------------------------------------------------------------
(* Properties of the whole chain *)

InFlight(r) == pc[r] \notin {"idle", "done"}

\* C28: every request to a posts route is eventually answered, and answered
\* exactly once: no path through protect, validation, controller and
\* errorHandler writes two responses or ends without one.
EveryRequestAnsweredOnce ==
    /\ [](\A r \in Reqs :
            /\ Len(res[r]) <= 1
            /\ pc[r] = "done" => Len(res[r]) = 1
            /\ InFlight(r) => res[r] = <<>>)
    /\ \A r \in Reqs : InFlight(r) ~> (pc[r] = "done" /\ Len(res[r]) = 1)

\* two requests in flight were both answered, one by errorHandler
BothAnsweredOneByErrorHandler ==
    /\ \A r \in Reqs : pc[r] = "done" /\ Len(res[r]) = 1
    /\ \E r \in Reqs : errLog[r] # <<>>
    /\ \E r \in Reqs : errLog[r] = <<>> /\ req[r].user # NoUser

----------------------------------------------------------------------------
(* Properties of createPost: what the new document takes from the request *)

\* C29: every post created through POST /api/posts has the authenticated
\* requester as its author, is unpublished and has the slug of its title,
\* whatever author, slug or published value the request body supplies.
CreatedPostOwnedByRequester ==
    [][\A r \in Reqs, p \in PostIds :
          (posts'[p] # posts[p] /\ pc[r] = "controller" /\ pc'[r] = "write") =>
             /\ req[r].user # NoUser
             /\ posts'[p].author = req[r].user._id
             /\ posts'[p].published = FALSE
             /\ posts'[p].slug = Slugify(posts'[p].title)]_vars

\* u1 created a post from a body naming u2 as author and supplying a slug and
\* published: true
CreatedFromBodyNamingAnotherAuthor ==
    \E r \in Reqs :
       /\ pc[r] \in {"write", "done"}
       /\ "author" \in DOMAIN req[r].body
       /\ req[r].body.author = <<"u2">>
       /\ req[r].body.published = <<TRUE>>
       /\ req[r].id \in PostIds
       /\ posts[req[r].id] # NoPost
       /\ posts[req[r].id].author = "u1"
       /\ req[r].user # NoUser
       /\ req[r].user._id = "u1"

----------------------------------------------------------------------------
(* Properties of updatePost: the owner of a post *)

\* C30: updatePost leaves a post's author unchanged whatever the request body
\* holds: after any sequence of PUT requests, an admin's included, each post's
\* author is the user who created it.
AuthorNeverChanges ==
    \A p \in PostIds : posts[p] # NoPost => posts[p].author = InitialPosts[p].author

\* the admin's PUT, whose body names the admin as author, was answered 200 and
\* changed the title; the post is still its creator's
AdminUpdatedPostKeepsAuthor ==
    \E r \in Reqs :
       /\ pc[r] = "done"
       /\ req[r].method = "PUT"
       /\ req[r].user # NoUser
       /\ req[r].user.role = "admin"
       /\ "author" \in DOMAIN req[r].body
       /\ req[r].body.author = <<req[r].user._id>>
       /\ res[r][Len(res[r])].status = 200
       /\ req[r].id \in PostIds
       /\ posts[req[r].id] # NoPost
       /\ posts[req[r].id].title = Trim(NewTitle)
       /\ posts[req[r].id].author = "u1"

----------------------------------------------------------------------------
(* Properties of the posts routes *)

Status(r) == res[r][Len(res[r])].status

\* the request that takes the step: the only one whose position changes
Steps(r) == pc'[r] # pc[r]

\* the requester is the post's author or an admin
MayTouch(user, post) ==
    /\ user # NoUser
    /\ (user._id = post.author \/ user.role = "admin")

\* C1: a stored post is modified or removed only by a PUT or DELETE request
\* whose authenticated user is the post's author or an admin; a step of a
\* request of any other user leaves every stored post unchanged.
OnlyAuthorOrAdminMutates ==
    [][\A p \in PostIds :
         posts[p] # NoPost =>
           /\ posts'[p] # posts[p] =>
                \E r \in Reqs :
                   /\ Steps(r)
                   /\ req[r].method \in {"PUT", "DELETE"}
                   /\ req[r].id = p
                   /\ MayTouch(req[r].user, posts[p])
           /\ \A r \in Reqs :
                (Steps(r) /\ ~MayTouch(req[r].user, posts[p]))
                   => posts'[p] = posts[p]]_vars

\* C1 witness: an admin who is not the author has changed p1 and the PUT of
\* another user, neither author nor admin, was refused
AdminUpdatedOtherRefused ==
    \E r1, r2 \in Reqs :
       /\ pc[r1] = "done" /\ pc[r2] = "done"
       /\ req[r1].method = "PUT" /\ req[r1].id = "p1"
       /\ req[r1].user # NoUser /\ req[r1].user._id = "u3"
       /\ Status(r1) = 200
       /\ posts["p1"] # NoPost /\ posts["p1"].title = Trim(NewTitle)
       /\ req[r2].method = "PUT" /\ req[r2].id = "p1"
       /\ req[r2].user # NoUser /\ req[r2].user._id = "u2"
       /\ Status(r2) = 403

\* the body passes postValidation: trimmed title of 3..200 characters and
\* trimmed content of at least 10
BodyValid(body) ==
    /\ Len(Trim(body.title)) \in TitleMin..TitleMax
    /\ Len(Trim(body.content)) >= ContentMin

\* updatePost looks up, in this step, a post that exists
UpdateFindsPost(r) ==
    /\ pc[r] = "controller"
    /\ req[r].method = "PUT"
    /\ Steps(r)
    /\ req[r].id \in PostIds
    /\ posts[req[r].id] # NoPost

\* the PUT of r is answered in this step
UpdateAnswers(r) ==
    /\ req[r].method = "PUT"
    /\ pc[r] \in {"controller", "write"}
    /\ pc'[r] = "done"

\* C2 as stated (the store answering): a PUT for an existing post returns 403
\* to a user who is neither author nor admin, and 200 to the author or an admin.
PutAnswers403Or200 ==
    [][\A r \in Reqs :
         /\ (UpdateFindsPost(r) /\ dbUp) =>
               IF MayTouch(req[r].user, posts[req[r].id])
               THEN pc'[r] = "write"
               ELSE pc'[r] = "done" /\ res'[r][Len(res'[r])].status = 403
         /\ (UpdateAnswers(r) /\ pc[r] = "write" /\ dbUp) =>
               res'[r][Len(res'[r])].status = 200]_vars

\* C2 amended: a PUT whose body passes validation, for a post that exists when
\* updatePost looks it up, returns 403 to a user who is neither author nor
\* admin; to the author or an admin it returns 200 unless the store rejects
\* the update call.  A PUT whose body fails validation returns 400 to all.
PutValidBodyAnswers403Or200 ==
    [][\A r \in Reqs :
         /\ (UpdateFindsPost(r) /\ dbUp /\ BodyValid(req[r].body)) =>
               IF MayTouch(req[r].user, posts[req[r].id])
               THEN pc'[r] = "write"
               ELSE pc'[r] = "done" /\ res'[r][Len(res'[r])].status = 403
         /\ (UpdateAnswers(r) /\ pc[r] = "write" /\ dbUp) =>
               res'[r][Len(res'[r])].status = 200
         /\ (UpdateAnswers(r) /\ pc[r] = "controller"
                /\ ~BodyValid(req[r].body)) =>
               res'[r][Len(res'[r])].status = 400]_vars

\* C2 witness: the author's PUT of a valid body was answered 200 and the valid
\* PUT of a user who is neither author nor admin was answered 403
AuthorPut200OtherPut403 ==
    \E r1, r2 \in Reqs :
       /\ pc[r1] = "done" /\ pc[r2] = "done"
       /\ req[r1].method = "PUT" /\ req[r1].id = "p1"
       /\ req[r1].user # NoUser /\ req[r1].user._id = "u1"
       /\ Status(r1) = 200
       /\ req[r2].method = "PUT" /\ req[r2].id = "p1"
       /\ req[r2].user # NoUser /\ req[r2].user._id = "u2"
       /\ BodyValid(req[r2].body)
       /\ Status(r2) = 403

----------------------------------------------------------------------------
(* Properties of protect *)

\* the header is exactly 'Bearer', one space, and a token without a space
IsBearerForm(h) ==
    /\ Len(h) > Len(Bearer) + 1
    /\ SubSeq(h, 1, Len(Bearer)) = Bearer
    /\ h[Len(Bearer) + 1] = SP
    /\ \A i \in (Len(Bearer) + 2)..Len(h) : h[i] # SP

BearerToken(h) == SubSeq(h, Len(Bearer) + 2, Len(h))

\* why a token fails verification under the server's secret at time t
FailCause(token, t) ==
    IF ~(Len(token) = 1 /\ DOMAIN token[1] = {"jwt", "sig"}) THEN "malformed"
    ELSE IF token[1].sig # JWT_SECRET THEN "wrong-secret"
    ELSE IF token[1].jwt.exp <= t THEN "expired"
    ELSE "none"

Rejected401 == <<Response(401, [error |-> NotAuthorizedMsg])>>

\* protect runs for r in this step, on a Bearer header
ProtectRuns(r) ==
    /\ pc[r] = "protect"
    /\ Steps(r)
    /\ IsBearerForm(req[r].authorization)

\* C3: a request whose Authorization header is absent or not of the form
\* 'Bearer <token>' is answered 401 'Not authorized to access this route';
\* next is not called and no user is attached.
MalformedSchemeRejected ==
    \A r \in Reqs :
       (pc[r] # "protect" /\ ~IsBearerForm(req[r].authorization)) =>
          /\ res[r] = Rejected401
          /\ nextCalls[r] = <<>>
          /\ req[r].user = NoUser

\* C4: whatever makes the Bearer token fail verification (expired, malformed,
\* signed with another secret), the response is the same 401 with the same
\* body, and next is not called.
TokenFailureUniform ==
    [][\A r \in Reqs :
         (ProtectRuns(r)
            /\ FailCause(BearerToken(req[r].authorization), now) # "none") =>
               /\ res'[r] = Rejected401
               /\ nextCalls'[r] = <<>>]_vars

\* C4 witness: one request was refused for a token that is not a JWT or is
\* signed with another secret, another for a well-signed token that had
\* expired, and the two responses are equal
TwoCausesSameResponse ==
    \E r1, r2 \in Reqs :
       /\ pc[r1] = "done" /\ pc[r2] = "done"
       /\ IsBearerForm(req[r1].authorization)
       /\ BearerToken(req[r1].authorization) \in {JunkToken, ForeignToken}
       /\ req[r2].authorization = Bearer \o <<SP>> \o TokenFor("u1")
       /\ req[r2].caught # <<>>
       /\ req[r2].caught[1].message = <<"Invalid token">>
       /\ res[r1] = res[r2]

\* C5: when the token verifies and the user lookup raises a storage error,
\* the answer is 401 'Not authorized to access this route', next is not
\* called and errorHandler is not reached (it logs nothing).
LookupErrorFailsClosed ==
    [][\A r \in Reqs :
         (ProtectRuns(r)
            /\ FailCause(BearerToken(req[r].authorization), now) = "none"
            /\ ~dbUp) =>
               /\ pc'[r] = "done"
               /\ res'[r] = Rejected401
               /\ nextCalls'[r] = <<>>
               /\ errLog'[r] = <<>>]_vars

\* C5 witness: protect caught the store's error and answered
StoreErrorCaught ==
    \E r \in Reqs :
       /\ pc[r] = "done"
       /\ req[r].caught # <<>>
       /\ req[r].caught[1].name = <<"MongoNetworkError">>
       /\ Len(res[r]) = 1

\* the id claim of the Bearer token of r
ClaimedId(r) == BearerToken(req[r].authorization)[1].jwt.id

\* the token of r verifies in this step and the lookup is answered
LookupAnswered(r) ==
    /\ ProtectRuns(r)
    /\ FailCause(BearerToken(req[r].authorization), now) = "none"
    /\ dbUp

\* C6: when the token verifies and no user has the claimed id, the answer is
\* 401 'User not found' and next is not called.
MissingUserRejected ==
    [][\A r \in Reqs :
         (LookupAnswered(r) /\ users[ClaimedId(r)] = NoUser) =>
            /\ res'[r] = <<Response(401, [error |-> UserNotFoundMsg])>>
            /\ nextCalls'[r] = <<>>]_vars

\* C6 witness: the holder of a valid token is gone and was told so
MissingUserAnswered ==
    \E r \in Reqs :
       /\ pc[r] = "done"
       /\ req[r].authorization = Bearer \o <<SP>> \o TokenFor("u4")
       /\ res[r] = <<Response(401, [error |-> UserNotFoundMsg])>>

\* C7: when the token verifies and the user with the claimed id exists,
\* protect attaches that user without its password, calls next once with no
\* argument and writes no response.
VerifiedUserAttached ==
    [][\A r \in Reqs :
         (LookupAnswered(r) /\ users[ClaimedId(r)] # NoUser) =>
            /\ DOMAIN req'[r].user = DOMAIN users[ClaimedId(r)] \ {"password"}
            /\ \A f \in DOMAIN req'[r].user :
                  req'[r].user[f] = users[ClaimedId(r)][f]
            /\ req'[r].user._id = ClaimedId(r)
            /\ nextCalls'[r] = << <<>> >>
            /\ res'[r] = <<>>]_vars

\* C7 witness: the admin's request has passed protect and awaits its handler
AdminPassedProtect ==
    \E r \in Reqs :
       /\ pc[r] = "controller"
       /\ req[r].user # NoUser
       /\ req[r].user._id = "u3"
       /\ nextCalls[r] = << <<>> >>

----------------------------------------------------------------------------
(* Properties of authorize *)

\* C8: the middleware authorize(...roles) returns calls next and writes
\* nothing iff the user's role is among the roles; otherwise it answers 403
\* with a message that names the user's role and does not call next.
AuthorizeIffRoleAllowed ==
    azOut # <<>> =>
       LET o == azOut[1] IN
       IF azUser.role \in {azRoles[i] : i \in 1..Len(azRoles)}
       THEN o.next = << <<>> >> /\ o.res = <<>>
       ELSE /\ o.next = <<>>
            /\ Len(o.res) = 1
            /\ o.res[1].status = 403
            /\ \E i \in 1..Len(o.res[1].body.error) :
                  o.res[1].body.error[i] = azUser.role

\* C8 witness: the user's role is the second of two allowed roles and the
\* middleware has let the request through
SecondRoleAllowed ==
    /\ azOut # <<>>
    /\ Len(azRoles) = 2
    /\ azRoles[1] # azRoles[2]
    /\ azUser.role = azRoles[2]
    /\ azOut[1].next = << <<>> >>

----------------------------------------------------------------------------
(* Properties of errorHandler *)

ErrClasses ==
    <<"cast", "duplicate", "validation", "malformed-token", "expired-token",
      "default">>

InClass(e, c) ==
    CASE c = "cast" -> e.name = <<"CastError">>
      [] c = "duplicate" -> e.code = <<DuplicateKeyCode>>
      [] c = "validation" -> e.name = <<"ValidationError">>
      [] c = "malformed-token" -> e.name = <<"JsonWebTokenError">>
      [] c = "expired-token" -> e.name = <<"TokenExpiredError">>
      [] OTHER -> TRUE

FirstClass(e) ==
    ErrClasses[CHOOSE i \in 1..Len(ErrClasses) :
                  /\ InClass(e, ErrClasses[i])
                  /\ \A j \in 1..(i - 1) : ~InClass(e, ErrClasses[j])]

ClassStatus(e, c) ==
    CASE c \in {"cast", "duplicate", "validation"} -> 400
      [] c \in {"malformed-token", "expired-token"} -> 401
      [] OTHER -> IF e.statusCode = <<>> THEN 500 ELSE e.statusCode[1]

ClassText(e, c) ==
    CASE c = "cast" -> "Invalid ID format"
      [] c = "duplicate" -> "Duplicate field value"
      [] c = "validation" -> "Validation error"
      [] c = "malformed-token" -> "Invalid token"
      [] c = "expired-token" -> "Token expired"
      [] OTHER -> IF e.message = <<>> THEN "Server Error" ELSE e.message[1]

\* C9: for an error with any combination of name, code and statusCode, the
\* response has the status and the error text of the first class, in the
\* order cast, duplicate key, validation, malformed token, expired token,
\* default, that the error matches.
FirstMatchingClassAnswers ==
    ehOut # <<>> =>
       /\ Len(ehOut[1].res) = 1
       /\ ehOut[1].res[1].status = ClassStatus(err, FirstClass(err))
       /\ ehOut[1].res[1].body.error = ClassText(err, FirstClass(err))

\* C10: whatever fields the error carries or lacks, errorHandler writes
\* exactly one response and returns without throwing or calling next.
AlwaysOneResponseNoThrow ==
    ehOut # <<>> =>
       /\ Len(ehOut[1].res) = 1
       /\ ~ehOut[1].threw
       /\ ehOut[1].next = <<>>

\* the body carries a stack trace (a stack of undefined is dropped by JSON)
HasStack(body) == "stack" \in DOMAIN body /\ body.stack # <<>>

\* C11: a response body written by errorHandler carries a stack only when the
\* runtime mode is 'development'; no classification branch other than the
\* default one ever carries it.
StackOnlyInDevelopment ==
    ehOut # <<>> =>
       \A i \in 1..Len(ehOut[1].res) :
          HasStack(ehOut[1].res[i].body) =>
             /\ env = "development"
             /\ FirstClass(err) = "default"

\* C11 witness: in development the default branch has answered with the
\* error's stack trace
DevelopmentDefaultCarriesStack ==
    /\ ehOut # <<>>
    /\ env = "development"
    /\ FirstClass(err) = "default"
    /\ Len(ehOut[1].res) = 1
    /\ HasStack(ehOut[1].res[1].body)
    /\ ehOut[1].res[1].body.stack = err.stack

----------------------------------------------------------------------------
(* Properties of error propagation *)

\* protect catches an error in this step of r (lines 32-34)
ProtectCatches(r) ==
    /\ pc[r] = "protect"
    /\ Steps(r)
    /\ req'[r].caught # <<>>

\* a store call of the posts controller raises in this step of r: the id does
\* not cast, or the store does not answer
ControllerRaises(r) ==
    /\ Steps(r)
    /\ \/ /\ pc[r] = "controller"
          /\ req[r].method = "PUT" => BodyValid(req[r].body)
          /\ (req[r].id \notin PostIds \/ ~dbUp)
       \/ /\ pc[r] = "write"
          /\ ~dbUp

\* the request's log holds one record, of the request's url, method and ip
LoggedOnce(log, r) ==
    /\ Len(log) = 1
    /\ log[1].url = Ctx(r).url
    /\ log[1].method = Ctx(r).method
    /\ log[1].ip = Ctx(r).ip
    /\ log[1].message # <<>>

----------------------------------------------------------------------------
(* Properties of the error responses *)

\* the body is {error, details?, stack?} with details a string (str) or a
\* list of strings (list)
ErrorShape(body) ==
    /\ "error" \in DOMAIN body
    /\ DOMAIN body \subseteq {"error", "details", "stack"}
    /\ "details" \in DOMAIN body => DOMAIN body.details \in {{"str"}, {"list"}}

\* C13: every error response the server sends has the shape
\* {error: string, details?: string | string[], stack?: string}.
ErrorResponsesShareShape ==
    \A r \in Reqs :
       \A i \in 1..Len(res[r]) :
          res[r][i].status >= 400 => ErrorShape(res[r][i].body)

----------------------------------------------------------------------------
(* Properties of the slug *)

\* C14: after any sequence of creations and title changes, by saving the
\* document or through PUT /posts/:id, every post whose slug was not supplied
\* explicitly has the slug derived from its current title.
SlugFollowsTitle ==
    \A p \in PostIds :
       posts[p] # NoPost => posts[p].slug = Slugify(posts[p].title)

----------------------------------------------------------------------------
(* Properties of updatePost under concurrent deletion *)

\* C16: updatePost (of a body that passes validation, the store answering)
\* responds 404 whenever the post is absent, also when it was deleted between
\* updatePost's check and its write; every 200 response of updatePost carries
\* the updated post with its author populated.
UpdateAbsent404Present200WithPost ==
    [][\A r \in Reqs :
         (UpdateAnswers(r) /\ dbUp /\ req[r].id \in PostIds
            /\ BodyValid(req[r].body)) =>
            LET answer == res'[r][Len(res'[r])] IN
            /\ posts[req[r].id] = NoPost => answer.status = 404
            /\ answer.status = 200 =>
                  /\ posts[req[r].id] # NoPost
                  /\ answer.body =
                        Populate(ApplyUpdate(posts[req[r].id], req[r].body), users)
                  /\ answer.body.author # NoUser]_vars

----------------------------------------------------------------------------
(* Properties of getPost and deletePost *)

\* the request of r, past protect if its route has it, is answered in this step
ControllerAnswers(r, method) ==
    /\ req[r].method = method
    /\ pc[r] \in {"controller", "write"}
    /\ pc'[r] = "done"

PostDeleted == Response(200, [success |-> TRUE, message |-> "Post deleted"])
PostNotFound == Response(404, [error |-> "Post not found"])

\* C17 (for authenticated requests, the store answering): a DELETE by the
\* author or an admin removes the post and returns 200 {success: true,
\* message: 'Post deleted'}; a GET or DELETE answered for an id that has no
\* post returns 404 and changes no post.
DeletedStaysNotFound ==
    [][\A r \in Reqs :
         ((ControllerAnswers(r, "GET") \/ ControllerAnswers(r, "DELETE"))
             /\ dbUp /\ req[r].id \in PostIds) =>
            LET answer == res'[r][Len(res'[r])] IN
            IF posts[req[r].id] = NoPost
            THEN answer = PostNotFound /\ posts' = posts
            ELSE (req[r].method = "DELETE"
                    /\ MayTouch(req[r].user, posts[req[r].id])) =>
                       /\ answer = PostDeleted
                       /\ posts'[req[r].id] = NoPost]_vars

\* C18 as stated (the store answering): GET /posts/:id responds 200 with the
\* post when a post with that id exists and 404 in every other case, for
\* every value of the id parameter.
GetAnswers200Or404 ==
    [][\A r \in Reqs :
         (ControllerAnswers(r, "GET") /\ dbUp) =>
            LET answer == res'[r][Len(res'[r])] IN
            IF req[r].id \in PostIds /\ posts[req[r].id] # NoPost
            THEN answer = Response(200, Populate(posts[req[r].id], users))
            ELSE answer.status = 404]_vars

\* C18 amended: GET /posts/:id responds 200 with the populated post when the
\* id is well formed and a post has it, 404 'Post not found' when the id is
\* well formed and no post has it, and 400 'Invalid ID format' when the id is
\* not a well-formed object id (the store answering); it changes no post.
GetAnswers200Or404Or400 ==
    [][\A r \in Reqs :
         (ControllerAnswers(r, "GET") /\ dbUp) =>
            LET answer == res'[r][Len(res'[r])] IN
            /\ Len(res'[r]) = 1
            /\ posts' = posts
            /\ IF req[r].id \notin PostIds
               THEN /\ answer.status = 400
                    /\ answer.body.error = "Invalid ID format"
               ELSE IF posts[req[r].id] # NoPost
               THEN answer = Response(200, Populate(posts[req[r].id], users))
               ELSE answer = PostNotFound]_vars

\* C18 witness: one GET was answered 200 with the post, another, for a
\* malformed id, 400
GetFoundAndGetMalformed ==
    \E r1, r2 \in Reqs :
       /\ pc[r1] = "done" /\ pc[r2] = "done"
       /\ req[r1].method = "GET" /\ req[r1].id = "p1"
       /\ Status(r1) = 200
       /\ res[r1][1].body._id = "p1"
       /\ res[r1][1].body.author.username = users["u1"].username
       /\ req[r2].method = "GET" /\ req[r2].id = BadId
       /\ Status(r2) = 400

----------------------------------------------------------------------------
(* Properties of createPost *)

StoredPosts(store) == {store[p] : p \in {q \in PostIds : store[q] # NoPost}}

----------------------------------------------------------------------------
(* Properties of the unique indexes *)

\* no two posts share a slug; no two users share a username, or an email
\* compared without regard to case
UniqueKeys ==
    /\ \A p, q \in PostIds :
          (p # q /\ posts[p] # NoPost /\ posts[q] # NoPost) =>
             posts[p].slug # posts[q].slug
    /\ \A u, v \in UserIds :
          (u # v /\ users[u] # NoUser /\ users[v] # NoUser) =>
             /\ users[u].username # users[v].username
             /\ LowerCase(users[u].email) # LowerCase(users[v].email)

\* the write of c would give two documents the same key
WouldCollide(c) ==
    LET doc == op[c].doc[1] IN
    CASE op[c].kind = "createUser" ->
            \E u \in UserIds :
               /\ users[u] # NoUser
               /\ \/ users[u].username = doc.username
                  \/ LowerCase(users[u].email) = LowerCase(doc.email)
      [] op[c].kind = "createPost" ->
            \E p \in PostIds : posts[p] # NoPost /\ posts[p].slug = doc.slug
      [] OTHER ->
            \E p \in PostIds :
               p # doc._id /\ posts[p] # NoPost /\ posts[p].slug = doc.slug

\* C15: in every reachable state, under any interleaving of concurrent
\* creates, no two posts share a slug and no two users share a username or
\* an email compared case-insensitively; a create that would violate this is
\* rejected and leaves the store unchanged.
UniqueKeysKept ==
    [][/\ UniqueKeys'
       /\ \A c \in Reqs :
             (pc[c] = "insert" /\ Steps(c) /\ WouldCollide(c)) =>
                /\ op'[c].out[1].threw
                /\ users' = users
                /\ posts' = posts]_vars

\* C15 witness: two users are stored, and the create of a third with the
\* email of one of them in capitals was rejected by the index while another
\* create was in flight
CapitalEmailRejected ==
    \E c, d \in Reqs :
       /\ c # d
       /\ pc[c] = "done" /\ op[c].kind = "createUser"
       /\ op[c].out[1].threw
       /\ op[c].out[1].error.code = <<DuplicateKeyCode>>
       /\ op[c].out[1].error.keyPattern = << <<"email">> >>
       /\ pc[d] = "insert"
       /\ Cardinality({u \in UserIds : users[u] # NoUser}) = 2
       /\ \E u \in UserIds :
             users[u] # NoUser /\ users[u].email = op[c].doc[1].email

----------------------------------------------------------------------------
(* Properties of getPosts *)

\* the posts that match the category filter, newest first
MatchingNewestFirst(q) ==
    SortNewestFirst({posts[p] : p \in {i \in DOMAIN posts : Matches(posts[i], q)}})

\* the positions first..last, counted from 0, of a sequence
Positions(s, first, last) ==
    LET idx == {i \in 1..Len(s) : i - 1 >= first /\ i - 1 <= last} IN
    [j \in 1..Cardinality(idx) |-> s[j + first]]

\* C20: getPosts returns, of the posts that match the optional category
\* filter ordered newest first, exactly those at positions (page-1)*limit up
\* to page*limit-1, page being 1 and limit 10 by default; it never returns
\* more than limit posts.
ListReturnsThePage ==
    \A r \in Reqs :
       (pc[r] = "done" /\ req[r].method = "GET" /\ req[r].id = "NONE"
          /\ Status(r) = 200) =>
          LET q == req[r].query
              page == PageOf(q)
              limit == LimitOf(q)
              listed == res[r][1].body
              expected == Positions(MatchingNewestFirst(q),
                                    (page - 1) * limit, page * limit - 1)
          IN /\ Len(listed) <= limit
             /\ Len(listed) = Len(expected)
             /\ \A i \in 1..Len(listed) : listed[i]._id = expected[i]._id

====
